---- MODULE Spec2Model ----
(***************************************************************************)
(* A model of parts of the DNS toolkit:                                    *)
(*   - dns.node.Node            (the rdataset list of one owner name)      *)
(*   - dns.zone.Zone            (name -> Node, find_node / find_rdataset)  *)
(*   - dns.rdataset.Rdataset    (TTL handling of add / update_ttl)         *)
(*   - dns.renderer.Renderer    (wire buffer, sections, size limit)        *)
(*   - dns.message.Message      (is_response, resolve_chaining)            *)
(*   - dns.tokenizer.Tokenizer  (get / unget, line counting, multiline)    *)
(*   - dns.resolver.Cache       (lock, periodic cleaning, two threads)     *)
(*   - dns.resolver.LRUCache    (linked list of nodes, eviction)           *)
(*   - dns.versioned.Zone       (reader / writer transactions)             *)
(*   - dns.transaction.Transaction (add, delete_exact, commit, rollback)   *)
(*   - dns.set.Set              (symmetric_difference and its update)      *)
(*   - dns.xfr.Inbound          (AXFR / IXFR state machine, commit)        *)
(*   - dns.rcode                (to_flags / from_flags)                    *)
(* Each part has its own next-state relation and specification; the        *)
(* variables of the other parts stay at their constructed values.          *)
(***************************************************************************)
EXTENDS Integers, Sequences, FiniteSets, TLC

VARIABLES
    rdatasets,    \* Node.rdatasets: the list of rdatasets of a stand-alone Node
    node_call,    \* the last call made on the Node and what it did
    nodes,        \* Zone.nodes: owner name -> list of rdatasets of its Node
    zone_calls,   \* the calls made on the Zone since it was constructed
    ttl,          \* Rdataset.ttl
    items,        \* Rdataset.items (the rdatas of the set)
    rds_calls,    \* the add() calls made on the Rdataset: TTL given, set empty or not
    output,       \* Renderer.output: the bytes of the buffer, each tagged by its writer
    pos,          \* Renderer.output's stream position (what tell() returns)
    compress,     \* Renderer.compress: name -> offset
    section,      \* Renderer.section
    counts,       \* Renderer.counts
    reserved,     \* Renderer.reserved
    was_padded,   \* Renderer.was_padded
    max_size,     \* Renderer.max_size
    r_call,       \* the last call made on the Renderer and how it ended
    recs,         \* the records whose bytes are in Renderer.output: section, count, extent
    msg_m,        \* a Message m: its id, flags and question section
    msg_r,        \* a Message r: its id, flags and question section
    msg_call,     \* the last m.is_response(r) call and what it returned
    chain_call,   \* the last resolve_chaining() call: the answer section and how it ended
    tok_input,    \* the characters of Tokenizer.file
    file_pos,     \* Tokenizer.file: index of the next character read(1) returns
    file_closed,  \* Tokenizer.file.closed
    ungotten_char,  \* Tokenizer.ungotten_char
    ungotten_token, \* Tokenizer.ungotten_token
    multiline,    \* Tokenizer.multiline
    eof,          \* Tokenizer.eof
    line_number,  \* Tokenizer.line_number
    nl_consumed,  \* newline characters handed out by _get_char and not pushed back
    char_ungets,  \* number of direct _unget_char calls made
    tok_call,     \* the last call made on the Tokenizer and how it ended
    now,          \* what time.time() returns
    cache_data,   \* Cache.data: key -> expiration of the cached Answer, 0 when absent
    next_cleaning,  \* Cache.next_cleaning
    cache_stats,  \* Cache.statistics
    cache_lock,   \* Cache.lock: the thread that holds it, 0 when free
    cache_pc,     \* thread -> its position in the Cache method it runs
    cache_op,     \* thread -> the Cache method it runs and its arguments
    clean_now,    \* thread -> the local now of Cache._maybe_clean
    keys_to_delete, \* thread -> the local keys_to_delete of Cache._maybe_clean
    cache_ops,    \* number of Cache method calls made
    cache_ret,    \* thread -> how its last Cache method call ended
    cache_access, \* the last access to the shared state of the Cache: who, with the lock?
    lru_list,     \* LRUCache: the nodes from sentinel.next to sentinel.prev
    lru_max_size, \* LRUCache.max_size
    lru_stats,    \* LRUCache.statistics
    lru_call,     \* the last call made on the LRUCache and how it ended
    vz_versions,  \* versioned.Zone._versions
    vz_write_txn, \* versioned.Zone._write_txn
    vz_readers,   \* versioned.Zone._readers
    vz_calls,     \* the calls the threads made on the versioned zone and their results
    txn_ended,    \* Transaction._ended
    txn_read_only,  \* Transaction.read_only
    txn_call,     \* the last call made on the Transaction and how it ended
    set_items,    \* Set.items of a stand-alone dns.set.Set (the keys of the dict)
    set_call,     \* the last call made on the Set: self before, other, result
    inbound,      \* the fields of a dns.xfr.Inbound
    xfr_sent,     \* the serial of the SOA records the server sends in this transfer
    xfr_txn_calls,  \* the commit / rollback calls made on Inbound.txn, with the message number
    xfr_seen,     \* the rrsets and messages handed to the Inbound so far
    xfr_call,     \* the last call made on the Inbound and how it ended
    rcode_value,  \* the rcode given to dns.rcode.to_flags
    rcode_call    \* what to_flags and from_flags returned for it

node_vars == <<rdatasets, node_call>>
zone_vars == <<nodes, zone_calls>>
rds_vars == <<ttl, items, rds_calls>>
renderer_vars == <<output, pos, compress, section, counts, reserved, was_padded,
                   max_size, r_call, recs>>
msg_vars == <<msg_m, msg_r, msg_call, chain_call>>
tok_vars == <<tok_input, file_pos, file_closed, ungotten_char, ungotten_token,
              multiline, eof, line_number, nl_consumed, char_ungets, tok_call>>
cache_vars == <<cache_data, next_cleaning, cache_stats, cache_lock, cache_pc, cache_op,
                clean_now, keys_to_delete, cache_ops, cache_ret, cache_access>>
lru_vars == <<lru_list, lru_max_size, lru_stats, lru_call>>
vz_vars == <<vz_versions, vz_write_txn, vz_readers, vz_calls>>
txn_vars == <<txn_ended, txn_read_only, txn_call>>
set_vars == <<set_items, set_call>>
mid_vars == <<msg_vars, tok_vars, now, cache_vars, lru_vars, vz_vars, txn_vars>>
xfr_vars == <<inbound, xfr_sent, xfr_txn_calls, xfr_seen, xfr_call>>
rcode_vars == <<rcode_value, rcode_call>>
more_vars == <<set_vars, xfr_vars, rcode_vars>>
later_vars == <<mid_vars, more_vars>>
set_others == <<mid_vars, xfr_vars, rcode_vars>>
xfr_others == <<mid_vars, set_vars, rcode_vars>>
rcode_others == <<mid_vars, set_vars, xfr_vars>>
msg_others == <<tok_vars, now, cache_vars, lru_vars, vz_vars, txn_vars, more_vars>>
tok_others == <<msg_vars, now, cache_vars, lru_vars, vz_vars, txn_vars, more_vars>>
now_others == <<msg_vars, tok_vars, cache_vars, lru_vars, vz_vars, txn_vars, more_vars>>
cache_others == <<msg_vars, tok_vars, lru_vars, vz_vars, txn_vars, more_vars>>
lru_others == <<msg_vars, tok_vars, cache_vars, vz_vars, txn_vars, more_vars>>
vz_others == <<msg_vars, tok_vars, now, cache_vars, lru_vars, txn_vars, more_vars>>
txn_others == <<msg_vars, tok_vars, now, cache_vars, lru_vars, vz_vars, more_vars>>
early_vars == <<node_vars, zone_vars, rds_vars, renderer_vars>>
vars == <<rdatasets, node_call, nodes, zone_calls, ttl, items, rds_calls,
          output, pos, compress, section, counts, reserved, was_padded,
          max_size, r_call, recs, msg_m, msg_r, msg_call, chain_call,
          tok_input, file_pos, file_closed, ungotten_char, ungotten_token,
          multiline, eof, line_number, nl_consumed, char_ungets, tok_call,
          now, cache_data, next_cleaning, cache_stats, cache_lock, cache_pc, cache_op,
          clean_now, keys_to_delete, cache_ops, cache_ret, cache_access,
          lru_list, lru_max_size, lru_stats, lru_call,
          vz_versions, vz_write_txn, vz_readers, vz_calls,
          txn_ended, txn_read_only, txn_call,
          set_items, set_call,
          inbound, xfr_sent, xfr_txn_calls, xfr_seen, xfr_call,
          rcode_value, rcode_call>>

(***************************************************************************)
(* Bounds of the model.                                                    *)
(***************************************************************************)
MaxNodeLen == 3      \* rdatasets created in the stand-alone Node
MaxZoneCalls == 3    \* calls made on the Zone
MaxAdds == 3         \* add() calls made on the Rdataset
MaxTtl == 5          \* TTL values 1..MaxTtl

(***************************************************************************)
(* dns.node                                                                *)
(***************************************************************************)
cname_types == {"CNAME"}

neutral_types == {"NSEC", "NSEC3", "KEY"}

\* The rdatasets the model creates: class IN; covers is NONE except for RRSIG.
PlainTypes == {"A", "CNAME", "NSEC", "NSEC3", "KEY"}

Rds(rdclass, rdtype, covers) ==
    [rdclass |-> rdclass, rdtype |-> rdtype, covers |-> covers]

RdsKeys ==
    {Rds("IN", t, "NONE") : t \in PlainTypes}
        \cup {Rds("IN", "RRSIG", c) : c \in PlainTypes}

\* Node._append_rdataset without the CNAME / other-data handling.
append_rdataset_plain(list, rdataset) == Append(list, rdataset)

\* Node._append_rdataset: the list after appending rdataset.
append_rdataset(list, rdataset) ==
    LET KeepForCname(rds) ==
            \/ rds.rdtype \in neutral_types
            \/ (rds.rdtype = "RRSIG" /\ rds.covers \in neutral_types)
        KeepForOther(rds) ==
            /\ rds.rdtype \notin cname_types
            /\ ~(rds.rdtype = "RRSIG" /\ rds.covers \in cname_types)
        kept == IF rdataset.rdtype \in cname_types
                    THEN SelectSeq(list, KeepForCname)
                ELSE IF rdataset.rdtype \notin neutral_types
                    THEN SelectSeq(list, KeepForOther)
                ELSE list
    IN  Append(kept, rdataset)

\* The comparison of Node.find_rdataset's loop.
node_match(rds, rdclass, rdtype, covers) ==
    rds.rdclass = rdclass /\ rds.rdtype = rdtype /\ rds.covers = covers

\* Node.delete_rdataset: the list without the matching rdataset.
delete_rdataset(list, rdclass, rdtype, covers) ==
    LET Keep(rds) == ~node_match(rds, rdclass, rdtype, covers)
    IN  SelectSeq(list, Keep)

NodeCall(op, k, appended, before) ==
    [op |-> op, rds |-> k, appended |-> appended, before |-> before]

\* Node.find_rdataset(rdclass, rdtype, covers, create)
Node_find_rdataset(k, create) ==
    LET found == \E i \in 1..Len(rdatasets) :
                     node_match(rdatasets[i], k.rdclass, k.rdtype, k.covers)
    IN  /\ IF found \/ ~create
              THEN /\ rdatasets' = rdatasets
                   /\ node_call' = NodeCall(IF found THEN "find" ELSE "KeyError",
                                            k, FALSE, Len(rdatasets))
              ELSE /\ Len(rdatasets) < MaxNodeLen
                   /\ rdatasets' = append_rdataset(rdatasets, k)
                   /\ node_call' = NodeCall("find", k, TRUE, Len(rdatasets))
        /\ UNCHANGED <<zone_vars, rds_vars, renderer_vars, later_vars>>

\* Node.get_rdataset(rdclass, rdtype, covers, create): find_rdataset, None on KeyError
Node_get_rdataset(k, create) ==
    LET found == \E i \in 1..Len(rdatasets) :
                     node_match(rdatasets[i], k.rdclass, k.rdtype, k.covers)
    IN  /\ IF found \/ ~create
              THEN /\ rdatasets' = rdatasets
                   /\ node_call' = NodeCall(IF found THEN "get" ELSE "None",
                                            k, FALSE, Len(rdatasets))
              ELSE /\ Len(rdatasets) < MaxNodeLen
                   /\ rdatasets' = append_rdataset(rdatasets, k)
                   /\ node_call' = NodeCall("get", k, TRUE, Len(rdatasets))
        /\ UNCHANGED <<zone_vars, rds_vars, renderer_vars, later_vars>>

\* Node.delete_rdataset(rdclass, rdtype, covers)
Node_delete_rdataset(k) ==
    /\ rdatasets' = delete_rdataset(rdatasets, k.rdclass, k.rdtype, k.covers)
    /\ node_call' = NodeCall("delete", k, FALSE, Len(rdatasets))
    /\ UNCHANGED <<zone_vars, rds_vars, renderer_vars, later_vars>>

\* Node.replace_rdataset(replacement)
Node_replace_rdataset(k) ==
    LET deleted == delete_rdataset(rdatasets, k.rdclass, k.rdtype, k.covers)
    IN  /\ Len(deleted) < MaxNodeLen
        /\ rdatasets' = append_rdataset(deleted, k)
        /\ node_call' = NodeCall("replace", k, TRUE, Len(deleted))
        /\ UNCHANGED <<zone_vars, rds_vars, renderer_vars, later_vars>>

\* Node.classify: the kind of the node holding the rdatasets of list.
classify(list) ==
    LET has_cname == \E i \in 1..Len(list) : list[i].rdtype \in cname_types
        has_regular ==
            \E i \in 1..Len(list) :
                /\ list[i].rdtype \notin cname_types
                /\ list[i].rdtype \notin neutral_types
                /\ (list[i].rdtype # "RRSIG" \/ list[i].covers \notin neutral_types)
    IN  IF has_cname THEN "CNAME" ELSE IF has_regular THEN "REGULAR" ELSE "NEUTRAL"

\* Node.classify()
Node_classify ==
    /\ node_call' = [op |-> "classify", rds |-> Rds("IN", "A", "NONE"), appended |-> FALSE,
                     before |-> Len(rdatasets), kind |-> classify(rdatasets)]
    /\ UNCHANGED rdatasets
    /\ UNCHANGED <<zone_vars, rds_vars, renderer_vars, later_vars>>

NodeInit ==
    /\ rdatasets = <<>>
    /\ node_call = NodeCall("init", Rds("IN", "A", "NONE"), FALSE, 0)

NextNode ==
    \/ \E k \in RdsKeys, create \in BOOLEAN : Node_find_rdataset(k, create)
    \/ \E k \in RdsKeys, create \in BOOLEAN : Node_get_rdataset(k, create)
    \/ \E k \in RdsKeys : Node_delete_rdataset(k)
    \/ \E k \in RdsKeys : Node_replace_rdataset(k)
    \/ Node_classify

(***************************************************************************)
(* dns.zone                                                                *)
(***************************************************************************)
ZoneNames == {"foo", "bar"}

ZoneTypes == {"A", "CNAME", "NSEC"}

ZoneCall(op, name, rdtype, create) ==
    [op |-> op, name |-> name, rdtype |-> rdtype, create |-> create]

\* Zone._validate_name(name): the key of name in Zone.nodes. The names of the model
\* are relative names below the origin of a relativizing zone, which it returns as
\* they are.
validate_name(name) == name

\* Zone.find_node(name, create): the node map afterwards (KeyError leaves it alone).
find_node(map, name, create) ==
    LET key == validate_name(name)
    IN  IF key \in DOMAIN map \/ ~create
            THEN map
            ELSE [n \in DOMAIN map \cup {key} |-> IF n = key THEN <<>> ELSE map[n]]

\* The comparison of Zone.find_rdataset's loop (the class is not compared).
zone_match(rds, rdtype, covers) ==
    rds.rdtype = rdtype /\ rds.covers = covers

\* Zone.find_node(name, create) and Zone.get_node(name, create)
Zone_find_node(name, create) ==
    /\ Len(zone_calls) < MaxZoneCalls
    /\ nodes' = find_node(nodes, name, create)
    /\ zone_calls' = Append(zone_calls, ZoneCall("find_node", name, "NONE", create))
    /\ UNCHANGED <<node_vars, rds_vars, renderer_vars, later_vars>>

\* Zone.delete_node(name)
Zone_delete_node(name) ==
    /\ Len(zone_calls) < MaxZoneCalls
    /\ nodes' = [n \in DOMAIN nodes \ {validate_name(name)} |-> nodes[n]]
    /\ zone_calls' = Append(zone_calls, ZoneCall("delete_node", name, "NONE", FALSE))
    /\ UNCHANGED <<node_vars, rds_vars, renderer_vars, later_vars>>

\* Zone.find_rdataset(name, rdtype, covers=NONE, create)
Zone_find_rdataset(name, rdtype, create) ==
    LET map == find_node(nodes, name, create)
        found == /\ name \in DOMAIN map
                 /\ \E i \in 1..Len(map[name]) : zone_match(map[name][i], rdtype, "NONE")
    IN  /\ Len(zone_calls) < MaxZoneCalls
        /\ nodes' = IF name \in DOMAIN map /\ ~found /\ create
                        THEN [map EXCEPT ![name] = Append(@, Rds("IN", rdtype, "NONE"))]
                        ELSE map
        /\ zone_calls' = Append(zone_calls,
                                ZoneCall("find_rdataset", name, rdtype, create))
        /\ UNCHANGED <<node_vars, rds_vars, renderer_vars, later_vars>>

ZoneInit ==
    /\ nodes = <<>>
    /\ zone_calls = <<>>

NextZone ==
    \/ \E name \in ZoneNames, create \in BOOLEAN : Zone_find_node(name, create)
    \/ \E name \in ZoneNames : Zone_delete_node(name)
    \/ \E name \in ZoneNames, rdtype \in ZoneTypes, create \in BOOLEAN :
           Zone_find_rdataset(name, rdtype, create)

(***************************************************************************)
(* dns.rdataset and dns.set                                                *)
(***************************************************************************)
Rdatas == {"rd1", "rd2"}

Ttls == 1..MaxTtl

\* Rdataset.update_ttl(ttl): the TTL of the set afterwards.
update_ttl(cur, new, empty) == cur

\* Rdataset.add(rd, ttl): the items of the set afterwards.
add_items(set, rd) == set

\* Rdataset.add(rd, ttl): the TTL of the set afterwards.
add_ttl(cur, new, empty) == cur

\* Rdataset.add(rd, ttl)
Rdataset_add(rd, t) ==
    /\ Len(rds_calls) < MaxAdds
    /\ items' = add_items(items, rd)
    /\ ttl' = add_ttl(ttl, t, items = {})
    /\ rds_calls' = Append(rds_calls, [ttl |-> t, was_empty |-> items = {}])
    /\ UNCHANGED <<node_vars, zone_vars, renderer_vars, later_vars>>

\* Rdataset.update_ttl(ttl)
Rdataset_update_ttl(t) ==
    /\ ttl' = update_ttl(ttl, t, items = {})
    /\ UNCHANGED <<items, rds_calls>>
    /\ UNCHANGED <<node_vars, zone_vars, renderer_vars, later_vars>>

\* Set.discard(item)
Set_discard(rd) ==
    /\ items' = items \ {rd}
    /\ UNCHANGED <<ttl, rds_calls>>
    /\ UNCHANGED <<node_vars, zone_vars, renderer_vars, later_vars>>

\* Set.clear()
Set_clear ==
    /\ items' = {}
    /\ UNCHANGED <<ttl, rds_calls>>
    /\ UNCHANGED <<node_vars, zone_vars, renderer_vars, later_vars>>

RdsInit ==
    /\ ttl = 0
    /\ items = {}
    /\ rds_calls = <<>>

NextRdataset ==
    \/ \E rd \in Rdatas, t \in Ttls : Rdataset_add(rd, t)
    \/ \E t \in Ttls : Rdataset_update_ttl(t)
    \/ \E rd \in Rdatas : Set_discard(rd)
    \/ Set_clear

(***************************************************************************)
(* dns.renderer                                                            *)
(***************************************************************************)
QUESTION == 0
ANSWER == 1
AUTHORITY == 2
ADDITIONAL == 3

Sections == {QUESTION, ANSWER, AUTHORITY, ADDITIONAL}

HeaderLen == 12        \* the header bytes written by __init__ and write_header
QFixedLen == 4         \* struct.pack("!HH", rdtype, rdclass)
TsigFixedLen == 10     \* struct.pack('!HHIH', TSIG, ANY, 0, 0)
DefaultMaxSize == 65535

MinMaxSize == 24       \* the smallest max_size a Renderer is constructed with
MaxMaxSize == 26       \* the largest max_size a Renderer is constructed with
MaxCount == 2          \* records counted in all sections together
MaxReserved == 2       \* bytes held back by reserve()

\* Owner names given to the add calls; "." is the root name (the owner of OPT).
Names == {"a", "b"}

\* Bytes rrset.to_wire / rdataset.to_wire write after the owner name.
BodySizes == {0, 10}

\* len(rrset): the records the rrset holds.
RecordCounts == {1}

\* Arguments of add_opt and add_tsig.
OptBodyLen == 10
Pads == {0, 8}
TsigSizes == {0, 5}
TsigRdataLen == 3       \* the bytes of TSIG rdata dns.tsig.generate returns

Bytes(tag, n) == [i \in 1..n |-> tag]

\* BytesIO.write(data) at stream position p: overwrites, extends at the end.
Write(buf, p, data) ==
    SubSeq(buf, 1, p) \o data \o SubSeq(buf, p + Len(data) + 1, Len(buf))

\* Name.to_wire(file, compress, origin): the bytes it writes for name.
NameWireLen(name, table) ==
    IF name = "." THEN 1 ELSE IF name \in DOMAIN table THEN 2 ELSE 3

\* Name.to_wire(file, compress, origin): the compression table afterwards.
NameCompress(name, table, offset) ==
    IF name = "." \/ name \in DOMAIN table
        THEN table
        ELSE [n \in DOMAIN table \cup {name} |-> IF n = name THEN offset ELSE table[n]]

\* Renderer._rollback(where): the compression table afterwards.
rollback_compress(table, where) ==
    [n \in {k \in DOMAIN table : table[k] < where} |-> table[n]]

\* Renderer._rollback(where): the buffer afterwards.
rollback_output(buf, where) == SubSeq(buf, 1, where)

\* Renderer._set_section(section) with the ordering test left out.
set_section_unchecked(sec, cur) == TRUE

\* Renderer._set_section(section): TRUE when it does not raise FormError.
set_section_ok(sec, cur) == ~(sec < cur)

\* The size test of the add calls: TRUE when TooBig is raised.
too_big(after, limit) == after >= limit

\* (((current_size - 1) // pad) + 1) * pad - current_size, of Renderer.add_opt
opt_padding(current_size, pad) ==
    ((((current_size - 1) \div pad) + 1) * pad) - current_size

\* A record (or the records of one rrset) in the buffer: its section, how many
\* records it is, and the offsets start <= i < stop of its bytes.
Rec(sec, n, start, stop) == [sec |-> sec, n |-> n, start |-> start, stop |-> stop]

\* BytesIO.write of the bytes lo <= i < hi: the records it leaves as they were.
untouched(rs, lo, hi) == SelectSeq(rs, LAMBDA r : r.stop <= lo \/ r.start >= hi)

\* BytesIO.truncate(where): the records still whole in the buffer.
truncated(rs, where) == SelectSeq(rs, LAMBDA r : r.stop <= where)

RCall(op, sec, err, wlen, pad, tsig_size) ==
    [op |-> op, section |-> sec, err |-> err, wlen |-> wlen, pad |-> pad,
     tsig_size |-> tsig_size]

CountsOk == counts[QUESTION] + counts[ANSWER] + counts[AUTHORITY] + counts[ADDITIONAL] < MaxCount

\* The body shared by add_question, add_rrset and add_rdataset: set the section,
\* write the owner name and the records, roll back and raise TooBig when too long.
AddRecords(op, sec, name, body, nrec, tag) ==
    IF ~set_section_ok(sec, section)
        THEN /\ r_call' = RCall(op, sec, "FormError", Len(output), 0, 0)
             /\ UNCHANGED <<output, pos, compress, section, counts, recs>>
        ELSE LET before == pos
                 table == NameCompress(name, compress, before)
                 data == Bytes(tag, NameWireLen(name, compress) + body)
                 written == Write(output, before, data)
                 after == before + Len(data)
             IN  /\ section' = sec
                 /\ IF too_big(after, max_size)
                       THEN /\ output' = rollback_output(written, before)
                            /\ pos' = before
                            /\ compress' = rollback_compress(table, before)
                            /\ counts' = counts
                            /\ recs' = truncated(recs, before)
                            /\ r_call' = RCall(op, sec, "TooBig", Len(written), 0, 0)
                       ELSE /\ output' = written
                            /\ pos' = after
                            /\ compress' = table
                            /\ counts' = [counts EXCEPT ![sec] = @ + nrec]
                            /\ recs' = Append(untouched(recs, before, after),
                                              Rec(sec, nrec, before, after))
                            /\ r_call' = RCall(op, sec, "ok", Len(written), 0, 0)

\* Renderer.add_question(qname, rdtype, rdclass)
Renderer_add_question(qname) ==
    /\ CountsOk
    /\ AddRecords("add_question", QUESTION, qname, QFixedLen, 1, "q")
    /\ UNCHANGED <<reserved, was_padded, max_size>>
    /\ UNCHANGED <<node_vars, zone_vars, rds_vars, later_vars>>

\* Renderer.add_rrset(section, rrset)
Renderer_add_rrset(sec, name, body, nrec) ==
    /\ CountsOk
    /\ AddRecords("add_rrset", sec, name, body, nrec, "r")
    /\ UNCHANGED <<reserved, was_padded, max_size>>
    /\ UNCHANGED <<node_vars, zone_vars, rds_vars, later_vars>>

\* Renderer.add_rdataset(section, name, rdataset)
Renderer_add_rdataset(sec, name, body, nrec) ==
    /\ CountsOk
    /\ AddRecords("add_rdataset", sec, name, body, nrec, "r")
    /\ UNCHANGED <<reserved, was_padded, max_size>>
    /\ UNCHANGED <<node_vars, zone_vars, rds_vars, later_vars>>

\* Renderer.add_opt(opt, pad, opt_size, tsig_size)
Renderer_add_opt(pad, tsig_size) ==
    LET before == pos
        data == Bytes("o", NameWireLen(".", compress) + OptBodyLen)
        written == Write(output, before, data)
        after == before + Len(data)
        padding == IF pad # 0 THEN opt_padding(after + tsig_size, pad) ELSE 0
        padded == IF padding > 0
                      THEN Write(written, after, Bytes("p", padding))
                      ELSE written
        end == IF padding > 0 THEN after + padding ELSE after
    IN  /\ CountsOk
        /\ section' = ADDITIONAL
        /\ IF too_big(after, max_size)
              THEN \* add_rrset raised TooBig after its own rollback
                   /\ output' = rollback_output(written, before)
                   /\ pos' = before
                   /\ compress' = rollback_compress(compress, before)
                   /\ counts' = counts
                   /\ recs' = truncated(recs, before)
                   /\ was_padded' = was_padded
                   /\ r_call' = RCall("add_opt", ADDITIONAL, "TooBig", Len(written),
                                      pad, tsig_size)
              ELSE /\ counts' = [counts EXCEPT ![ADDITIONAL] = @ + 1]
                   /\ was_padded' = (was_padded \/ padding > 0)
                   /\ IF too_big(end, max_size)
                         THEN /\ output' = rollback_output(padded, before)
                              /\ pos' = before
                              /\ compress' = rollback_compress(compress, before)
                              /\ recs' = truncated(recs, before)
                              /\ r_call' = RCall("add_opt", ADDITIONAL, "TooBig",
                                                 Len(padded), pad, tsig_size)
                         ELSE /\ output' = padded
                              /\ recs' = Append(untouched(recs, before, end),
                                                Rec(ADDITIONAL, 1, before, after))
                              /\ pos' = end
                              /\ compress' = compress
                              /\ r_call' = RCall("add_opt", ADDITIONAL, "ok",
                                                 Len(padded), pad, tsig_size)
        /\ UNCHANGED <<reserved, max_size>>
        /\ UNCHANGED <<node_vars, zone_vars, rds_vars, later_vars>>

\* Renderer.add_tsig(keyname, secret, fudge, id, tsig_error, other_data, request_mac)
Renderer_add_tsig(keyname) ==
    LET before == pos
        table == NameCompress(keyname, compress, before)
        data == Bytes("t", NameWireLen(keyname, compress) + TsigFixedLen + TsigRdataLen)
        written == Write(output, before, data)
        after == before + Len(data)
        rdata_start == after - TsigRdataLen
    IN  /\ CountsOk
        /\ section' = ADDITIONAL
        /\ counts' = [counts EXCEPT ![ADDITIONAL] = @ + 1]
        /\ IF too_big(after, max_size)
              THEN /\ output' = rollback_output(written, before)
                   /\ pos' = before
                   /\ compress' = rollback_compress(table, before)
                   /\ recs' = truncated(recs, before)
                   /\ r_call' = RCall("add_tsig", ADDITIONAL, "TooBig", Len(written), 0, 0)
              ELSE /\ output' = written
                   /\ recs' = Append(untouched(recs, before, after),
                                     Rec(ADDITIONAL, 1, before, after))
                   /\ pos' = rdata_start
                   /\ compress' = table
                   /\ r_call' = RCall("add_tsig", ADDITIONAL, "ok", Len(written), 0, 0)
        /\ UNCHANGED <<reserved, was_padded, max_size>>
        /\ UNCHANGED <<node_vars, zone_vars, rds_vars, later_vars>>

\* Renderer.write_header()
Renderer_write_header ==
    /\ output' = Write(output, 0, Bytes("h", HeaderLen))
    /\ pos' = HeaderLen
    /\ r_call' = RCall("write_header", section, "ok", Len(output), 0, 0)
    /\ UNCHANGED <<compress, section, counts, reserved, was_padded, max_size, recs>>
    /\ UNCHANGED <<node_vars, zone_vars, rds_vars, later_vars>>

\* Renderer.reserve(size)
Renderer_reserve(size) ==
    /\ reserved + size <= MaxReserved
    /\ reserved' = reserved + size
    /\ r_call' = RCall("reserve", section, "ok", Len(output), 0, 0)
    /\ UNCHANGED <<output, pos, compress, section, counts, was_padded, max_size, recs>>
    /\ UNCHANGED <<node_vars, zone_vars, rds_vars, later_vars>>

\* Renderer.release_reserved()
Renderer_release_reserved ==
    /\ reserved' = 0
    /\ r_call' = RCall("release_reserved", section, "ok", Len(output), 0, 0)
    /\ UNCHANGED <<output, pos, compress, section, counts, was_padded, max_size, recs>>
    /\ UNCHANGED <<node_vars, zone_vars, rds_vars, later_vars>>

\* Renderer.__init__(id, flags, max_size, origin)
RendererInit(size) ==
    /\ output = Bytes("z", HeaderLen)
    /\ pos = HeaderLen
    /\ compress = <<>>
    /\ section = QUESTION
    /\ counts = [s \in Sections |-> 0]
    /\ reserved = 0
    /\ was_padded = FALSE
    /\ max_size = size
    /\ r_call = RCall("init", QUESTION, "ok", HeaderLen, 0, 0)
    /\ recs = <<>>

NextRenderer ==
    \/ \E qname \in Names : Renderer_add_question(qname)
    \/ \E sec \in Sections, name \in Names, body \in BodySizes, nrec \in RecordCounts :
           Renderer_add_rrset(sec, name, body, nrec)
    \/ \E sec \in Sections, name \in Names, body \in BodySizes, nrec \in RecordCounts :
           Renderer_add_rdataset(sec, name, body, nrec)
    \/ \E pad \in Pads, tsig_size \in TsigSizes : Renderer_add_opt(pad, tsig_size)
    \/ \E keyname \in Names : Renderer_add_tsig(keyname)
    \/ Renderer_write_header
    \/ \E size \in 1..MaxReserved : Renderer_reserve(size)
    \/ Renderer_release_reserved

(***************************************************************************)
(* dns.message.Message: two messages m and r, and m.is_response(r).        *)
(***************************************************************************)
QR == 32768

OpcodeShift == 2048

OpcodeMask == 16

MAX_CHAIN == 16

MaxChainLen == 17

MessageIds == {1, 2}

MessageFlags == {0, QR, 5 * OpcodeShift, QR + 5 * OpcodeShift}

Questions == {<<>>, <<"q1">>, <<"q2">>}

\* dns.opcode.from_flags: (flags >> 11) & 0xF
from_flags(flags) == (flags \div OpcodeShift) % OpcodeMask

\* Message.opcode(): the body is empty, every message answers None
opcode(msg) == "None"

\* other.flags & dns.flags.QR
flag_QR(flags) == (flags \div QR) % 2

Message(id) == [id |-> id, flags |-> 0, question |-> <<>>]

is_response(self, other) ==
    /\ self.id = other.id
    /\ opcode(self) = opcode(other)
    /\ flag_QR(other.flags) # 0

Message_init(which, id) ==
    /\ \/ which = "m" /\ msg_m' = Message(id) /\ UNCHANGED msg_r
       \/ which = "r" /\ msg_r' = Message(id) /\ UNCHANGED msg_m
    /\ msg_call' = [called |-> FALSE, result |-> FALSE]
    /\ UNCHANGED chain_call
    /\ UNCHANGED <<early_vars, msg_others>>

Message_set_flags(which, flags) ==
    /\ \/ which = "m" /\ msg_m' = [msg_m EXCEPT !.flags = flags] /\ UNCHANGED msg_r
       \/ which = "r" /\ msg_r' = [msg_r EXCEPT !.flags = flags] /\ UNCHANGED msg_m
    /\ msg_call' = [called |-> FALSE, result |-> FALSE]
    /\ UNCHANGED chain_call
    /\ UNCHANGED <<early_vars, msg_others>>

Message_set_question(which, q) ==
    /\ \/ which = "m" /\ msg_m' = [msg_m EXCEPT !.question = q] /\ UNCHANGED msg_r
       \/ which = "r" /\ msg_r' = [msg_r EXCEPT !.question = q] /\ UNCHANGED msg_m
    /\ msg_call' = [called |-> FALSE, result |-> FALSE]
    /\ UNCHANGED chain_call
    /\ UNCHANGED <<early_vars, msg_others>>

Message_is_response ==
    /\ msg_call' = [called |-> TRUE, result |-> is_response(msg_m, msg_r)]
    /\ UNCHANGED <<msg_m, msg_r, chain_call>>
    /\ UNCHANGED <<early_vars, msg_others>>

\* The answer section given to resolve_chaining: a chain of CNAME rrsets
\* q -> n1 -> ... -> n_len starting at the question name; with loop, the last
\* CNAME points back at the question name, without it an answer rrset of the
\* question's type sits at the end of the chain.
ChainCall(called, len, loop, result, err) ==
    [called |-> called, len |-> len, loop |-> loop, result |-> result, err |-> err]

\* QueryMessage.resolve_chaining: the body is empty, the call returns None
resolve_chaining(len, loop) == [result |-> "None", err |-> ""]

QueryMessage_resolve_chaining(len, loop) ==
    /\ chain_call' = ChainCall(TRUE, len, loop, resolve_chaining(len, loop).result,
                               resolve_chaining(len, loop).err)
    /\ UNCHANGED <<msg_m, msg_r, msg_call>>
    /\ UNCHANGED <<early_vars, msg_others>>

MessageInit ==
    /\ msg_m = Message(1)
    /\ msg_r = Message(1)
    /\ msg_call = [called |-> FALSE, result |-> FALSE]
    /\ chain_call = ChainCall(FALSE, 0, FALSE, "None", "")

NextMessage ==
    \/ \E which \in {"m", "r"}, id \in MessageIds : Message_init(which, id)
    \/ \E which \in {"m", "r"}, flags \in MessageFlags : Message_set_flags(which, flags)
    \/ \E which \in {"m", "r"}, q \in Questions : Message_set_question(which, q)
    \/ Message_is_response
    \/ \E len \in 0..MaxChainLen, loop \in BOOLEAN : QueryMessage_resolve_chaining(len, loop)

(***************************************************************************)
(* dns.tokenizer.Tokenizer over a string input.  The file is the list of   *)
(* characters tok_input read through file_pos; read(1) on a closed file    *)
(* raises ValueError.  A character is a one-character string, "" is what   *)
(* read(1) returns at the end of the file, and "None" is Python's None.    *)
(***************************************************************************)
EOF == 0

EOL == 1

WHITESPACE == 2

IDENTIFIER == 3

QUOTED_STRING == 4

COMMENT == 5

DELIMITER == 6

MaxInputLen == 3

MaxCharUngets == 1

DELIMITERS == {" ", "\t", "\n", ";", "(", ")", "\""}

InputChars == {"a", " ", "\n", "(", ")", ";"}

Token(ttype, value) == [ttype |-> ttype, value |-> value]

NoToken == Token(-1, <<>>)

\* the fields of the Tokenizer that the character operations read and write
Tok ==
    [pos |-> file_pos, closed |-> file_closed, uc |-> ungotten_char,
     multiline |-> multiline, eof |-> eof, line |-> line_number,
     nl |-> nl_consumed]

SetTok(t) ==
    /\ file_pos' = t.pos
    /\ file_closed' = t.closed
    /\ ungotten_char' = t.uc
    /\ multiline' = t.multiline
    /\ eof' = t.eof
    /\ line_number' = t.line
    /\ nl_consumed' = t.nl

NlCount(c) == IF c = "\n" THEN 1 ELSE 0

\* Tokenizer._get_char: the result is the character, the tokenizer after the
\* call, and the exception raised if any
get_char(t) ==
    IF t.uc # "None"
    THEN [c |-> t.uc, err |-> "",
          t |-> [t EXCEPT !.uc = "None", !.nl = @ + NlCount(t.uc)]]
    ELSE IF t.closed
    THEN [c |-> "", err |-> "ValueError", t |-> t]
    ELSE IF t.pos <= Len(tok_input)
    THEN LET c == tok_input[t.pos]
         IN  [c |-> c, err |-> "",
              t |-> [t EXCEPT !.pos = @ + 1,
                              !.line = @ + NlCount(c),
                              !.nl = @ + NlCount(c)]]
    ELSE [c |-> "", err |-> "", t |-> [t EXCEPT !.eof = TRUE, !.closed = TRUE]]

unget_char_never_full(uc) == FALSE

unget_char_full(uc) == uc # "None"

\* Tokenizer._unget_char
unget_char(t, c) ==
    IF unget_char_full(t.uc)
    THEN [err |-> "UngetBufferFull", t |-> t]
    ELSE [err |-> "",
          t |-> [t EXCEPT !.uc = c, !.line = @ - NlCount(c), !.nl = @ - NlCount(c)]]

newline_always_ends_skip(c, depth) == c = "\n"

newline_ends_skip(c, depth) == c = "\n" /\ depth = 0

RECURSIVE skip_whitespace_loop(_, _)
skip_whitespace_loop(t, skipped) ==
    LET r == get_char(t)
    IN  IF r.err # ""
        THEN [skipped |-> skipped, err |-> r.err, t |-> r.t]
        ELSE IF r.c = "" \/ r.c \notin {" ", "\t", "\r", "\n"}
        THEN IF r.c # ""
             THEN LET u == unget_char(r.t, r.c)
                  IN  [skipped |-> skipped, err |-> u.err, t |-> u.t]
             ELSE [skipped |-> skipped, err |-> "", t |-> r.t]
        ELSE IF newline_ends_skip(r.c, r.t.multiline)
        THEN LET u == unget_char(r.t, r.c)
             IN  [skipped |-> skipped, err |-> u.err, t |-> u.t]
        ELSE skip_whitespace_loop(r.t, skipped + 1)

\* Tokenizer.skip_whitespace
skip_whitespace(t) == skip_whitespace_loop(t, 0)

\* Tokenizer._get_quoted_string
RECURSIVE get_quoted_string(_, _)
get_quoted_string(t, value) ==
    LET r == get_char(t)
    IN  IF r.err # ""
        THEN [token |-> NoToken, err |-> r.err, t |-> r.t]
        ELSE IF r.c = ""
        THEN [token |-> NoToken, err |-> "SyntaxError", t |-> r.t]
        ELSE IF r.c = "\""
        THEN [token |-> Token(QUOTED_STRING, value), err |-> "", t |-> r.t]
        ELSE IF r.c = "\\"
        THEN LET e == get_char(r.t)
             IN  IF e.err # ""
                 THEN [token |-> NoToken, err |-> e.err, t |-> e.t]
                 ELSE IF e.c = ""
                 THEN [token |-> NoToken, err |-> "SyntaxError", t |-> e.t]
                 ELSE get_quoted_string(e.t, Append(value, e.c))
        ELSE get_quoted_string(r.t, Append(value, r.c))

\* Tokenizer._get_comment
RECURSIVE get_comment(_, _)
get_comment(t, comment) ==
    LET r == get_char(t)
    IN  IF r.err # ""
        THEN [token |-> NoToken, err |-> r.err, t |-> r.t]
        ELSE IF r.c = "" \/ r.c = "\n"
        THEN IF r.c = "\n"
             THEN LET u == unget_char(r.t, r.c)
                  IN  [token |-> Token(COMMENT, comment), err |-> u.err, t |-> u.t]
             ELSE [token |-> Token(COMMENT, comment), err |-> "", t |-> r.t]
        ELSE get_comment(r.t, Append(comment, r.c))

\* Tokenizer._get_identifier
RECURSIVE get_identifier(_, _)
get_identifier(t, value) ==
    LET r == get_char(t)
    IN  IF r.err # ""
        THEN [token |-> NoToken, err |-> r.err, t |-> r.t]
        ELSE IF r.c = "" \/ r.c \in DELIMITERS
        THEN IF r.c # ""
             THEN LET u == unget_char(r.t, r.c)
                  IN  [token |-> Token(IDENTIFIER, value), err |-> u.err, t |-> u.t]
             ELSE [token |-> Token(IDENTIFIER, value), err |-> "", t |-> r.t]
        ELSE get_identifier(r.t, Append(value, r.c))

\* Tokenizer._get_token
get_token(t) ==
    LET r == get_char(t)
    IN  IF r.err # ""
        THEN [token |-> NoToken, err |-> r.err, t |-> r.t]
        ELSE IF r.c = ""
        THEN [token |-> Token(EOF, <<>>), err |-> "", t |-> r.t]
        ELSE IF r.c = "\n"
        THEN [token |-> Token(EOL, <<>>), err |-> "", t |-> r.t]
        ELSE IF r.c \in DELIMITERS
        THEN IF r.c = "\""
             THEN get_quoted_string(r.t, <<>>)
             ELSE IF r.c = ";"
             THEN get_comment(r.t, <<>>)
             ELSE LET depth ==
                          IF r.c = "(" THEN r.t.multiline + 1
                          ELSE IF r.c = ")"
                          THEN (IF r.t.multiline - 1 > 0 THEN r.t.multiline - 1 ELSE 0)
                          ELSE r.t.multiline
                  IN  [token |-> Token(DELIMITER, <<r.c>>), err |-> "",
                       t |-> [r.t EXCEPT !.multiline = depth]]
        ELSE get_identifier(r.t, <<r.c>>)

\* Tokenizer.get when no token is in the unget buffer
RECURSIVE get(_, _, _)
get(t, want_leading, want_comment) ==
    LET s == skip_whitespace(t)
    IN  IF s.err # ""
        THEN [token |-> NoToken, err |-> s.err, t |-> s.t]
        ELSE IF want_leading /\ s.skipped > 0
        THEN [token |-> Token(WHITESPACE, [i \in 1..s.skipped |-> " "]),
              err |-> "", t |-> s.t]
        ELSE LET g == get_token(s.t)
             IN  IF g.err # ""
                 THEN g
                 ELSE IF g.token.ttype = COMMENT /\ ~want_comment
                 THEN get(g.t, want_leading, want_comment)
                 ELSE g

TokCall(op, token, c, err, want_leading) ==
    [op |-> op, token |-> token, c |-> c, err |-> err, want_leading |-> want_leading]

UngetTokens == {Token(IDENTIFIER, <<"a">>)}

UngetChars == {"a", "\n"}

\* Tokenizer.get
Tokenizer_get(want_leading, want_comment) ==
    /\ IF ungotten_token # NoToken
       THEN /\ tok_call' = TokCall("get", ungotten_token, "None", "", want_leading)
            /\ ungotten_token' = NoToken
            /\ SetTok(Tok)
       ELSE LET r == get(Tok, want_leading, want_comment)
            IN  /\ tok_call' = TokCall("get", r.token, "None", r.err, want_leading)
                /\ SetTok(r.t)
                /\ UNCHANGED ungotten_token
    /\ UNCHANGED <<tok_input, char_ungets>>
    /\ UNCHANGED <<early_vars, tok_others>>

\* Tokenizer.unget
Tokenizer_unget(token) ==
    /\ IF ungotten_token # NoToken
       THEN /\ tok_call' = TokCall("unget", token, "None", "UngetBufferFull", FALSE)
            /\ UNCHANGED ungotten_token
       ELSE /\ tok_call' = TokCall("unget", token, "None", "", FALSE)
            /\ ungotten_token' = token
    /\ SetTok(Tok)
    /\ UNCHANGED <<tok_input, char_ungets>>
    /\ UNCHANGED <<early_vars, tok_others>>

\* a direct call of Tokenizer._unget_char
Tokenizer_unget_char(c) ==
    /\ char_ungets < MaxCharUngets
    /\ char_ungets' = char_ungets + 1
    /\ LET u == unget_char(Tok, c)
       IN  /\ tok_call' = TokCall("_unget_char", NoToken, c, u.err, FALSE)
           /\ SetTok(u.t)
    /\ UNCHANGED <<tok_input, ungotten_token>>
    /\ UNCHANGED <<early_vars, tok_others>>

\* Tokenizer.where()[1]
where == line_number

\* Tokenizer.__init__ on the string f
TokenizerInit(f) ==
    /\ tok_input = f
    /\ file_pos = 1
    /\ file_closed = FALSE
    /\ ungotten_char = "None"
    /\ ungotten_token = NoToken
    /\ multiline = 0
    /\ eof = FALSE
    /\ line_number = 1
    /\ nl_consumed = 0
    /\ char_ungets = 0
    /\ tok_call = TokCall("init", NoToken, "None", "", FALSE)

Inputs == UNION {[1..n -> InputChars] : n \in 0..MaxInputLen}

NextTokenizerGet ==
    \E want_leading \in BOOLEAN, want_comment \in BOOLEAN :
        Tokenizer_get(want_leading, want_comment)

NextTokenizer ==
    \/ NextTokenizerGet
    \/ \E token \in (UngetTokens \cup {tok_call.token}) \ {NoToken} : Tokenizer_unget(token)
    \/ \E c \in UngetChars : Tokenizer_unget_char(c)

(***************************************************************************)
(* dns.resolver.Cache used by several threads.  A thread runs get, put or  *)
(* flush; cache_pc is its position: _maybe_clean runs before the lock is   *)
(* taken, one shared access per step, and the body of the with-block runs  *)
(* while the thread holds the lock.                                        *)
(***************************************************************************)
MaxNow == 2

MaxCacheOps == 3

CleaningInterval == 1

Threads == {1, 2}

CacheKeys == {"a", "b"}

Expirations == {1, 3}

NoAnswer == 0

NoThread == 0

NoOp == [op |-> "none", key |-> "None", value |-> NoAnswer]

CacheAccess(thread, field) ==
    [thread |-> thread, field |-> field, locked |-> cache_lock = thread]

\* time.time() moves on
Tick ==
    /\ now < MaxNow
    /\ now' = now + 1
    /\ UNCHANGED <<early_vars, now_others>>

\* keys_to_delete of Cache._maybe_clean
expired_keys(data, when) == {k \in CacheKeys : data[k] # NoAnswer /\ data[k] <= when}

\* a thread calls Cache.get(key), Cache.put(key, value) or Cache.flush(key)
Cache_call(t, op, key, value) ==
    /\ cache_pc[t] = "idle"
    /\ cache_ops < MaxCacheOps
    /\ cache_ops' = cache_ops + 1
    /\ cache_op' = [cache_op EXCEPT ![t] = [op |-> op, key |-> key, value |-> value]]
    /\ cache_pc' = [cache_pc EXCEPT ![t] = IF op = "flush" THEN "acquire" ELSE "clean"]
    /\ cache_ret' = [cache_ret EXCEPT ![t] = "running"]
    /\ UNCHANGED <<now, cache_data, next_cleaning, cache_stats, cache_lock,
                   clean_now, keys_to_delete, cache_access>>
    /\ UNCHANGED <<early_vars, cache_others>>

\* Cache._maybe_clean: now = time.time(); if self.next_cleaning <= now
Cache_clean_test(t) ==
    /\ cache_pc[t] = "clean"
    /\ clean_now' = [clean_now EXCEPT ![t] = now]
    /\ cache_access' = CacheAccess(t, "next_cleaning")
    /\ cache_pc' = [cache_pc EXCEPT ![t] =
                        IF next_cleaning <= now THEN "clean_scan" ELSE "acquire"]
    /\ UNCHANGED <<now, cache_data, next_cleaning, cache_stats, cache_lock, cache_op,
                   keys_to_delete, cache_ops, cache_ret>>
    /\ UNCHANGED <<early_vars, cache_others>>

\* Cache._maybe_clean: keys_to_delete = [k for k, v in self.data.items() if ...]
Cache_clean_scan(t) ==
    /\ cache_pc[t] = "clean_scan"
    /\ keys_to_delete' = [keys_to_delete EXCEPT ![t] = expired_keys(cache_data, clean_now[t])]
    /\ cache_access' = CacheAccess(t, "data")
    /\ cache_pc' = [cache_pc EXCEPT ![t] = "clean_delete"]
    /\ UNCHANGED <<now, cache_data, next_cleaning, cache_stats, cache_lock, cache_op,
                   clean_now, cache_ops, cache_ret>>
    /\ UNCHANGED <<early_vars, cache_others>>

\* Cache._maybe_clean: del self.data[key] for one key of keys_to_delete; KeyError
\* ends the call when the key is no longer in the dictionary
Cache_clean_delete(t) ==
    /\ cache_pc[t] = "clean_delete"
    /\ keys_to_delete[t] # {}
    /\ \E k \in keys_to_delete[t] :
          /\ keys_to_delete' = [keys_to_delete EXCEPT ![t] = @ \ {k}]
          /\ IF cache_data[k] # NoAnswer
             THEN /\ cache_data' = [cache_data EXCEPT ![k] = NoAnswer]
                  /\ UNCHANGED <<cache_pc, cache_ret>>
             ELSE /\ cache_pc' = [cache_pc EXCEPT ![t] = "idle"]
                  /\ cache_ret' = [cache_ret EXCEPT ![t] = "KeyError"]
                  /\ UNCHANGED cache_data
    /\ cache_access' = CacheAccess(t, "data")
    /\ UNCHANGED <<now, next_cleaning, cache_stats, cache_lock, cache_op, clean_now,
                   cache_ops>>
    /\ UNCHANGED <<early_vars, cache_others>>

\* Cache._maybe_clean: self.next_cleaning = now + self.cleaning_interval
Cache_clean_done(t) ==
    /\ cache_pc[t] = "clean_delete"
    /\ keys_to_delete[t] = {}
    /\ next_cleaning' = clean_now[t] + CleaningInterval
    /\ cache_access' = CacheAccess(t, "next_cleaning")
    /\ cache_pc' = [cache_pc EXCEPT ![t] = "acquire"]
    /\ UNCHANGED <<now, cache_data, cache_stats, cache_lock, cache_op, clean_now,
                   keys_to_delete, cache_ops, cache_ret>>
    /\ UNCHANGED <<early_vars, cache_others>>

\* with self.lock: (entry)
Cache_acquire(t) ==
    /\ cache_pc[t] = "acquire"
    /\ cache_lock = NoThread
    /\ cache_lock' = t
    /\ cache_pc' = [cache_pc EXCEPT ![t] = "locked"]
    /\ UNCHANGED <<now, cache_data, next_cleaning, cache_stats, cache_op, clean_now,
                   keys_to_delete, cache_ops, cache_ret, cache_access>>
    /\ UNCHANGED <<early_vars, cache_others>>

\* the body of the with-block of Cache.get, and the release of the lock
Cache_get_body(t) ==
    /\ cache_pc[t] = "locked"
    /\ cache_op[t].op = "get"
    /\ LET answer == cache_data[cache_op[t].key]
       IN  IF answer # NoAnswer /\ answer > now
           THEN /\ cache_stats' = [cache_stats EXCEPT !.hits = @ + 1]
                /\ cache_ret' = [cache_ret EXCEPT ![t] = "hit"]
           ELSE /\ cache_stats' = [cache_stats EXCEPT !.misses = @ + 1]
                /\ cache_ret' = [cache_ret EXCEPT ![t] = "miss"]
    /\ cache_access' = CacheAccess(t, "data, statistics")
    /\ cache_lock' = NoThread
    /\ cache_pc' = [cache_pc EXCEPT ![t] = "idle"]
    /\ UNCHANGED <<now, cache_data, next_cleaning, cache_op, clean_now,
                   keys_to_delete, cache_ops>>
    /\ UNCHANGED <<early_vars, cache_others>>

\* the body of the with-block of Cache.put, and the release of the lock
Cache_put_body(t) ==
    /\ cache_pc[t] = "locked"
    /\ cache_op[t].op = "put"
    /\ cache_data' = [cache_data EXCEPT ![cache_op[t].key] = cache_op[t].value]
    /\ cache_access' = CacheAccess(t, "data")
    /\ cache_ret' = [cache_ret EXCEPT ![t] = "done"]
    /\ cache_lock' = NoThread
    /\ cache_pc' = [cache_pc EXCEPT ![t] = "idle"]
    /\ UNCHANGED <<now, next_cleaning, cache_stats, cache_op, clean_now,
                   keys_to_delete, cache_ops>>
    /\ UNCHANGED <<early_vars, cache_others>>

\* the body of the with-block of Cache.flush, and the release of the lock
Cache_flush_body(t) ==
    /\ cache_pc[t] = "locked"
    /\ cache_op[t].op = "flush"
    /\ cache_data' = IF cache_op[t].key # "None"
                     THEN [cache_data EXCEPT ![cache_op[t].key] = NoAnswer]
                     ELSE [k \in CacheKeys |-> NoAnswer]
    /\ next_cleaning' = now + CleaningInterval
    /\ cache_access' = CacheAccess(t, "data, next_cleaning")
    /\ cache_ret' = [cache_ret EXCEPT ![t] = "done"]
    /\ cache_lock' = NoThread
    /\ cache_pc' = [cache_pc EXCEPT ![t] = "idle"]
    /\ UNCHANGED <<now, cache_stats, cache_op, clean_now, keys_to_delete, cache_ops>>
    /\ UNCHANGED <<early_vars, cache_others>>

\* Cache.__init__ at time 0
CacheInit ==
    /\ now = 0
    /\ cache_data = [k \in CacheKeys |-> NoAnswer]
    /\ next_cleaning = 0 + CleaningInterval
    /\ cache_stats = [hits |-> 0, misses |-> 0]
    /\ cache_lock = NoThread
    /\ cache_pc = [t \in Threads |-> "idle"]
    /\ cache_op = [t \in Threads |-> NoOp]
    /\ clean_now = [t \in Threads |-> 0]
    /\ keys_to_delete = [t \in Threads |-> {}]
    /\ cache_ops = 0
    /\ cache_ret = [t \in Threads |-> "none"]
    /\ cache_access = [thread |-> NoThread, field |-> "none", locked |-> TRUE]

NextCache ==
    \/ Tick
    \/ \E t \in Threads, key \in CacheKeys : Cache_call(t, "get", key, NoAnswer)
    \/ \E t \in Threads, key \in CacheKeys, value \in Expirations :
          Cache_call(t, "put", key, value)
    \/ \E t \in Threads, key \in CacheKeys \cup {"None"} :
          Cache_call(t, "flush", key, NoAnswer)
    \/ \E t \in Threads : Cache_clean_test(t)
    \/ \E t \in Threads : Cache_clean_scan(t)
    \/ \E t \in Threads : Cache_clean_delete(t)
    \/ \E t \in Threads : Cache_clean_done(t)
    \/ \E t \in Threads : Cache_acquire(t)
    \/ \E t \in Threads : Cache_get_body(t)
    \/ \E t \in Threads : Cache_put_body(t)
    \/ \E t \in Threads : Cache_flush_body(t)

(***************************************************************************)
(* dns.resolver.LRUCache.  Every method body runs under self.lock, so a    *)
(* method is one step.  lru_list is the linked list from sentinel.next to  *)
(* sentinel.prev; a node is live when self.data[node.key] is that node.    *)
(***************************************************************************)
DefaultLruMaxSize == 100000

MaxLruSize == 2

MaxListLen == 3

MaxLruGets == 2

LruKeys == {"a", "b", "c"}

LRUCacheNode(key, value) == [key |-> key, value |-> value, hits |-> 0, live |-> TRUE]

\* LRUCache.set_max_size
set_max_size(size) == IF size < 1 THEN 1 ELSE size

\* the keys of self.data
data_keys(list) == {list[i].key : i \in {j \in 1..Len(list) : list[j].live}}

\* self.data.get(key): the position in the list of the node, 0 for None
data_get(list, key) ==
    IF key \in data_keys(list)
    THEN CHOOSE i \in 1..Len(list) : list[i].live /\ list[i].key = key
    ELSE 0

\* node.prev.next = node.next; node.next.prev = node.prev
unlink(list, i) == SubSeq(list, 1, i - 1) \o SubSeq(list, i + 1, Len(list))

\* LRUCache._add_to_front
add_to_front(list, node) == <<node>> \o list

\* LRUCache._move_to_front
move_to_front(list, i) == add_to_front(unlink(list, i), list[i])

\* self.data.pop(key, None) and del self.data[key]: the node stays in the list
data_pop(list, key) ==
    [i \in 1..Len(list) |->
        IF list[i].key = key THEN [list[i] EXCEPT !.live = FALSE] ELSE list[i]]

\* LRUCache._remove_last
remove_last(list) ==
    IF data_keys(list) = {}
    THEN [list |-> list, err |-> ""]
    ELSE LET node == list[Len(list)]
             rest == SubSeq(list, 1, Len(list) - 1)
         IN  IF node.key \in data_keys(list)
             THEN [list |-> data_pop(rest, node.key), err |-> ""]
             ELSE [list |-> rest, err |-> "KeyError"]

\* while len(self.data) >= self.max_size: self._remove_last()
RECURSIVE make_room(_, _)
make_room(list, size) ==
    IF Cardinality(data_keys(list)) >= size
    THEN LET r == remove_last(list)
         IN  IF r.err # "" THEN r ELSE make_room(r.list, size)
    ELSE [list |-> list, err |-> ""]

LruCall(op, key, err) == [op |-> op, key |-> key, err |-> err]

\* LRUCache.put
LRUCache_put(key, value) ==
    /\ Len(lru_list) < MaxListLen
    /\ LET i == data_get(lru_list, key)
           r == make_room(lru_list, lru_max_size)
       IN  IF i # 0
           THEN /\ lru_list' = add_to_front(unlink(lru_list, i),
                                            [lru_list[i] EXCEPT !.value = value, !.hits = 0])
                /\ lru_call' = LruCall("put", key, "")
           ELSE IF r.err # ""
           THEN /\ lru_list' = r.list
                /\ lru_call' = LruCall("put", key, r.err)
           ELSE /\ lru_list' = add_to_front(r.list, LRUCacheNode(key, value))
                /\ lru_call' = LruCall("put", key, "")
    /\ UNCHANGED <<now, lru_max_size, lru_stats>>
    /\ UNCHANGED <<early_vars, lru_others>>

\* LRUCache.get
LRUCache_get(key) ==
    /\ lru_stats.hits + lru_stats.misses < MaxLruGets
    /\ LET i == data_get(lru_list, key)
       IN  IF i = 0
           THEN /\ lru_stats' = [lru_stats EXCEPT !.misses = @ + 1]
                /\ UNCHANGED lru_list
           ELSE IF lru_list[i].value <= now
           THEN /\ lru_list' = data_pop(lru_list, key)
                /\ lru_stats' = [lru_stats EXCEPT !.misses = @ + 1]
           ELSE /\ lru_list' = add_to_front(unlink(lru_list, i),
                                            [lru_list[i] EXCEPT !.hits = @ + 1])
                /\ lru_stats' = [lru_stats EXCEPT !.hits = @ + 1]
    /\ lru_call' = LruCall("get", key, "")
    /\ UNCHANGED <<now, lru_max_size>>
    /\ UNCHANGED <<early_vars, lru_others>>

\* LRUCache.flush
LRUCache_flush(key) ==
    /\ lru_list' = IF key # "None" THEN data_pop(lru_list, key) ELSE <<>>
    /\ lru_call' = LruCall("flush", key, "")
    /\ UNCHANGED <<now, lru_max_size, lru_stats>>
    /\ UNCHANGED <<early_vars, lru_others>>

\* LRUCache.__init__
LRUCacheInit(size) ==
    /\ lru_list = <<>>
    /\ lru_max_size = set_max_size(size)
    /\ lru_stats = [hits |-> 0, misses |-> 0]
    /\ lru_call = LruCall("init", "None", "")

NextLRUCache ==
    \/ Tick
    \/ \E key \in LruKeys, value \in Expirations : LRUCache_put(key, value)
    \/ \E key \in LruKeys : LRUCache_get(key)
    \/ \E key \in LruKeys \cup {"None"} : LRUCache_flush(key)

(***************************************************************************)
(* dns.versioned.Zone and its transactions, used by several threads.       *)
(* versioned.Zone defines __init__ only: reader() and writer() are the     *)
(* methods of dns.transaction.TransactionManager, whose bodies are empty.  *)
(***************************************************************************)
MaxVzCalls == 3

NoTransaction == [txn |-> FALSE, read_only |-> FALSE, version |-> 0]

\* Zone._get_next_version_id: ids grow with every version made
get_next_version_id(versions) == Len(versions) + 1

\* dns.zone.WritableVersion(zone, replacement)
WritableVersion(versions, zone_nodes, replacement) ==
    [id |-> get_next_version_id(versions),
     nodes |-> IF replacement THEN <<>> ELSE zone_nodes,
     changed |-> {}]

\* dns.zone.ImmutableVersion(version)
ImmutableVersion(version) == [id |-> version.id, nodes |-> version.nodes]

\* Zone._commit_version_unlocked: publish the version as the newest one
commit_version_unlocked(versions, version) ==
    Append(versions, ImmutableVersion(version))

\* TransactionManager.reader: the body is empty, the call returns None
reader(versions) == NoTransaction

\* TransactionManager.writer: the body is empty, the call returns None
writer(versions, replacement) == NoTransaction

VzCall(thread, op, result, err, current) ==
    [thread |-> thread, op |-> op, result |-> result, err |-> err,
     current |-> current]

\* the id of the newest version of the zone
current_version == vz_versions[Len(vz_versions)].id

\* the transaction the thread's last reader() or writer() call returned
last_transaction(t) ==
    LET mine == {i \in 1..Len(vz_calls) :
                    vz_calls[i].thread = t /\ vz_calls[i].op \in {"reader", "writer"}}
    IN  IF mine = {}
        THEN NoTransaction
        ELSE vz_calls[CHOOSE i \in mine : \A j \in mine : j <= i].result

\* a thread calls zone.reader()
VersionedZone_reader(t) ==
    /\ Len(vz_calls) < MaxVzCalls
    /\ vz_calls' = Append(vz_calls,
                          VzCall(t, "reader", reader(vz_versions), "", current_version))
    /\ UNCHANGED <<vz_versions, vz_write_txn, vz_readers>>
    /\ UNCHANGED <<early_vars, vz_others>>

\* a thread calls zone.writer(replacement)
VersionedZone_writer(t, replacement) ==
    /\ Len(vz_calls) < MaxVzCalls
    /\ vz_calls' = Append(vz_calls,
                          VzCall(t, "writer", writer(vz_versions, replacement), "",
                                 current_version))
    /\ UNCHANGED <<vz_versions, vz_write_txn, vz_readers>>
    /\ UNCHANGED <<early_vars, vz_others>>

\* a thread calls commit() or rollback() on what its last reader() or writer()
\* returned: on None it is an AttributeError, on a Transaction the empty body of
\* Transaction.commit / Transaction.rollback
VersionedZone_end(t, op) ==
    /\ Len(vz_calls) < MaxVzCalls
    /\ \E i \in 1..Len(vz_calls) :
          vz_calls[i].thread = t /\ vz_calls[i].op \in {"reader", "writer"}
    /\ vz_calls' = Append(vz_calls,
                          VzCall(t, op, last_transaction(t),
                                 IF last_transaction(t).txn THEN "" ELSE "AttributeError",
                                 current_version))
    /\ UNCHANGED <<vz_versions, vz_write_txn, vz_readers>>
    /\ UNCHANGED <<early_vars, vz_others>>

\* dns.versioned.Zone.__init__
VersionedZoneInit ==
    /\ vz_versions = commit_version_unlocked(<<>>, WritableVersion(<<>>, <<>>, TRUE))
    /\ vz_write_txn = NoTransaction
    /\ vz_readers = {}
    /\ vz_calls = <<>>

NextVersionedZone ==
    \/ \E t \in Threads : VersionedZone_reader(t)
    \/ \E t \in Threads, replacement \in BOOLEAN : VersionedZone_writer(t, replacement)
    \/ \E t \in Threads, op \in {"commit", "rollback"} : VersionedZone_end(t, op)

(***************************************************************************)
(* dns.transaction.Transaction: a transaction object made over the Zone    *)
(* of this model (dns.zone.Transaction(zone, replacement)).                *)
(***************************************************************************)
TxnCall(op, name, rdtype, err) == [op |-> op, name |-> name, rdtype |-> rdtype, err |-> err]

\* Transaction.delete_exact: the body is empty; nothing is deleted or raised
delete_exact(map, name, rdtype) == [nodes |-> map, err |-> ""]

\* Transaction.add: the body is empty
add(map, name, rdtype) == [nodes |-> map, err |-> ""]

\* Transaction.commit, Transaction.rollback: the body is empty
end_transaction(ended, commit) == ended

\* dns.zone.Transaction(zone, replacement, version)
Transaction_init(read_only) ==
    /\ txn_ended' = FALSE
    /\ txn_read_only' = read_only
    /\ txn_call' = TxnCall("init", "None", "None", "")
    /\ UNCHANGED <<early_vars, txn_others>>

Transaction_add(name, rdtype) ==
    /\ nodes' = add(nodes, name, rdtype).nodes
    /\ txn_call' = TxnCall("add", name, rdtype, add(nodes, name, rdtype).err)
    /\ UNCHANGED <<txn_ended, txn_read_only, zone_calls>>
    /\ UNCHANGED <<node_vars, rds_vars, renderer_vars, txn_others>>

Transaction_delete_exact(name, rdtype) ==
    /\ nodes' = delete_exact(nodes, name, rdtype).nodes
    /\ txn_call' = TxnCall("delete_exact", name, rdtype,
                           delete_exact(nodes, name, rdtype).err)
    /\ UNCHANGED <<txn_ended, txn_read_only, zone_calls>>
    /\ UNCHANGED <<node_vars, rds_vars, renderer_vars, txn_others>>

Transaction_commit ==
    /\ txn_ended' = end_transaction(txn_ended, TRUE)
    /\ txn_call' = TxnCall("commit", "None", "None", "")
    /\ UNCHANGED txn_read_only
    /\ UNCHANGED <<early_vars, txn_others>>

Transaction_rollback ==
    /\ txn_ended' = end_transaction(txn_ended, FALSE)
    /\ txn_call' = TxnCall("rollback", "None", "None", "")
    /\ UNCHANGED txn_read_only
    /\ UNCHANGED <<early_vars, txn_others>>

\* Transaction.__exit__: if not self._ended: commit() when no exception is in
\* flight, rollback() otherwise
Transaction_exit(exc) ==
    /\ txn_ended' = IF txn_ended THEN txn_ended ELSE end_transaction(txn_ended, ~exc)
    /\ txn_call' = TxnCall("exit", "None", "None", "")
    /\ UNCHANGED txn_read_only
    /\ UNCHANGED <<early_vars, txn_others>>

\* Transaction.__init__
TransactionInit ==
    /\ txn_ended = FALSE
    /\ txn_read_only = FALSE
    /\ txn_call = TxnCall("init", "None", "None", "")

NextTransaction ==
    \/ \E name \in ZoneNames, rdtype \in ZoneTypes : Zone_find_rdataset(name, rdtype, TRUE)
    \/ \E read_only \in BOOLEAN : Transaction_init(read_only)
    \/ \E name \in ZoneNames, rdtype \in ZoneTypes : Transaction_add(name, rdtype)
    \/ \E name \in ZoneNames, rdtype \in ZoneTypes : Transaction_delete_exact(name, rdtype)
    \/ Transaction_commit
    \/ Transaction_rollback
    \/ \E exc \in BOOLEAN : Transaction_exit(exc)

(***************************************************************************)
(* dns.set.Set: a stand-alone set; items is a dict whose keys are the      *)
(* members, modelled as the set of its keys.                               *)
(***************************************************************************)
\* The items the sets of the model are made of.
SetItems == {1, 2, 3}

\* Set.union_update(other): for item in other: self.add(item)
union_update(self, other) == self \cup other

\* Set.intersection_update(other)
intersection_update(self, other) == {item \in self : item \in other}

\* Set.difference_update(other): for item in other: self.discard(item)
difference_update(self, other) == self \ other

\* Set.update(other): for item in other: self.add(item)
update(self, other) == self \cup other

\* Set.union(other): the clone of self after union_update(other)
union(self, other) == union_update(self, other)

\* Set.symmetric_difference_update(other): self afterwards
symmetric_difference_update(self, other) ==
    LET temp == union(self, other)
        self1 == intersection_update(self, other)
        temp1 == difference_update(temp, self1)
    IN  update(self1, temp1)

\* Set.symmetric_difference(other): the clone of self after
\* symmetric_difference_update(other)
symmetric_difference(self, other) == symmetric_difference_update(self, other)

SetCall(op, self, other, result) ==
    [op |-> op, self |-> self, other |-> other, result |-> result]

\* Set.add(item)
Set_add(item) ==
    /\ set_items' = set_items \cup {item}
    /\ set_call' = SetCall("add", set_items, {item}, set_items \cup {item})
    /\ UNCHANGED <<early_vars, set_others>>

\* a.symmetric_difference(b): a is left as it was, the result is returned
Set_symmetric_difference(other) ==
    /\ set_call' = SetCall("symmetric_difference", set_items, other,
                           symmetric_difference(set_items, other))
    /\ UNCHANGED set_items
    /\ UNCHANGED <<early_vars, set_others>>

\* a.symmetric_difference_update(b): the result is a itself
Set_symmetric_difference_update(other) ==
    /\ set_items' = symmetric_difference_update(set_items, other)
    /\ set_call' = SetCall("symmetric_difference_update", set_items, other,
                           symmetric_difference_update(set_items, other))
    /\ UNCHANGED <<early_vars, set_others>>

\* Set.__init__()
SetInit ==
    /\ set_items = {}
    /\ set_call = SetCall("init", {}, {}, {})

NextSet ==
    \/ \E item \in SetItems : Set_add(item)
    \/ \E other \in SUBSET SetItems : Set_symmetric_difference(other)
    \/ \E other \in SUBSET SetItems : Set_symmetric_difference_update(other)

(***************************************************************************)
(* dns.xfr.Inbound: the state machine of an inbound zone transfer.  A      *)
(* message is its rcode() and the rdtypes of the rrsets of its answer      *)
(* section; every SOA record of a transfer carries the serial xfr_sent.    *)
(* Inbound.txn is "None" or "Transaction".                                 *)
(***************************************************************************)
NOERROR == 0

SERVFAIL == 2

\* Python's None as the value of message.rcode(): what Message.rcode returns
NoRcode == -1

MaxXfrMessages == 3

\* The width of a serial number in the model (dns.serial.Serial has 32 bits).
SerialBits == 4

\* The base serial given to Inbound for an IXFR.
BaseSerial == 1

SentSerials == {0, 1, 2, 2 ^ SerialBits - 1}

Rcodes == {NoRcode, NOERROR, SERVFAIL}

Answers == {<<>>, <<"SOA">>, <<"A">>, <<"SOA", "SOA">>, <<"SOA", "A">>, <<"A", "SOA">>,
            <<"A", "A">>, <<"SOA", "A", "SOA">>}

\* What txn_manager.writer() returns: None from TransactionManager.writer, a
\* Transaction from a manager that implements writer().
Managers == {"None", "Transaction"}

\* dns.serial.Serial(a) < dns.serial.Serial(b), RFC 1982
serial_lt(a, b) == a # b /\ ((b - a) % (2 ^ SerialBits)) < 2 ^ (SerialBits - 1)

\* dns.serial.Serial(a) <= dns.serial.Serial(b)
serial_le(a, b) == a = b \/ serial_lt(a, b)

\* self.txn = self.txn_manager.writer() when self.txn is None
with_txn(self) ==
    [self EXCEPT !.txn = IF self.txn = "None" THEN self.txn_manager ELSE self.txn]

\* self.txn.replace / add / delete: AttributeError when self.txn is None
txn_use(self) == [self |-> self, err |-> IF self.txn = "None" THEN "AttributeError" ELSE ""]

\* Inbound._process_soa(rrset), the SOA record having the serial given
process_soa(self, serial) ==
    IF ~self.soa_rdataset
        THEN LET s1 == with_txn([self EXCEPT !.soa_rdataset = TRUE])
             IN  IF s1.rdtype = "IXFR"
                     THEN IF serial_le(serial, s1.serial)
                              THEN [self |-> s1, err |-> "SerialWentBackwards"]
                              ELSE txn_use([s1 EXCEPT !.delete_mode = TRUE])
                     ELSE txn_use(s1)
    ELSE IF self.expecting_SOA
        THEN [self |-> [self EXCEPT !.expecting_SOA = FALSE,
                                    !.delete_mode = IF self.rdtype = "IXFR" THEN ~@ ELSE @],
              err |-> ""]
    ELSE [self |-> [self EXCEPT !.done = TRUE], err |-> ""]

\* Inbound._process_rrset(rrset)
process_rrset(self) ==
    LET s1 == with_txn(self)
    IN  IF txn_use(s1).err # ""
            THEN txn_use(s1)
            ELSE [self |-> [s1 EXCEPT !.expecting_SOA = TRUE], err |-> ""]

\* The loop of Inbound.process_message over message.answer
RECURSIVE process_answer(_, _, _)
process_answer(self, answer, serial) ==
    IF answer = <<>> THEN [self |-> self, err |-> ""]
    ELSE LET r == IF Head(answer) = "SOA" THEN process_soa(self, serial)
                  ELSE process_rrset(self)
         IN  IF r.err # "" THEN r ELSE process_answer(r.self, Tail(answer), serial)

\* Inbound.process_message(message): the Inbound afterwards, what is returned or
\* raised, and whether self.txn.commit() was called.  TransferError(None) raises
\* TypeError in its __init__ (dns.rcode.to_text compares None with 0).
process_message(self, rcode, answer, serial) ==
    IF rcode # NOERROR
        THEN [self |-> self, result |-> FALSE,
              err |-> IF rcode = NoRcode THEN "TypeError" ELSE "TransferError",
              commit |-> FALSE]
    ELSE IF self.done
        THEN [self |-> self, result |-> TRUE, err |-> "", commit |-> FALSE]
    ELSE LET r == process_answer(self, answer, serial)
         IN  IF r.err # ""
                 THEN [self |-> r.self, result |-> FALSE, err |-> r.err, commit |-> FALSE]
                 ELSE [self |-> r.self, result |-> r.self.done, err |-> "",
                       commit |-> r.self.done /\ r.self.txn # "None"]

\* Inbound.__init__(txn_manager, rdtype, serial)
Inbound(txn_manager, rdtype) ==
    [txn_manager |-> txn_manager, txn |-> "None", rdtype |-> rdtype, serial |-> BaseSerial,
     soa_rdataset |-> FALSE, done |-> FALSE, expecting_SOA |-> FALSE, delete_mode |-> FALSE]

XfrCall(op, rcode, answer, result, err) ==
    [op |-> op, rcode |-> rcode, answer |-> answer, result |-> result, err |-> err]

\* The rrsets handed over so far: the SOA rrsets among them (2 stands for 2 or
\* more), whether the first of all was an SOA, the messages, and the number of
\* the first message for which process_message returned True (0: none yet).
Seen(soas, rrsets, opened, msgs, first_true) ==
    [soas |-> soas, rrsets |-> rrsets, opened |-> opened, msgs |-> msgs,
     first_true |-> first_true]

RECURSIVE SoaCount(_)
SoaCount(answer) ==
    IF answer = <<>> THEN 0
    ELSE (IF Head(answer) = "SOA" THEN 1 ELSE 0) + SoaCount(Tail(answer))

Inbound_init(txn_manager, rdtype, sent) ==
    /\ inbound' = Inbound(txn_manager, rdtype)
    /\ xfr_sent' = sent
    /\ xfr_txn_calls' = <<>>
    /\ xfr_seen' = Seen(0, 0, FALSE, 0, 0)
    /\ xfr_call' = XfrCall("init", NOERROR, <<>>, FALSE, "")
    /\ UNCHANGED <<early_vars, xfr_others>>

Inbound_process_message(rcode, answer) ==
    LET r == process_message(inbound, rcode, answer, xfr_sent)
        n == xfr_seen.msgs + 1
        told == rcode = NOERROR /\ answer # <<>>
    IN  /\ xfr_call.op \in {"init", "process_message"}
        /\ xfr_call.err = ""
        /\ xfr_seen.msgs < MaxXfrMessages
        /\ inbound' = r.self
        /\ xfr_txn_calls' = IF r.commit
                               THEN Append(xfr_txn_calls, [op |-> "commit", msg |-> n])
                               ELSE xfr_txn_calls
        /\ xfr_seen' = Seen(IF rcode = NOERROR
                                THEN IF xfr_seen.soas + SoaCount(answer) > 2 THEN 2
                                     ELSE xfr_seen.soas + SoaCount(answer)
                                ELSE xfr_seen.soas,
                            IF told /\ xfr_seen.rrsets = 0 THEN 1 ELSE xfr_seen.rrsets,
                            IF told /\ xfr_seen.rrsets = 0
                                THEN Head(answer) = "SOA" ELSE xfr_seen.opened,
                            n,
                            IF xfr_seen.first_true = 0 /\ r.err = "" /\ r.result
                                THEN n ELSE xfr_seen.first_true)
        /\ xfr_call' = XfrCall("process_message", rcode, answer, r.result, r.err)
        /\ UNCHANGED xfr_sent
        /\ UNCHANGED <<early_vars, xfr_others>>

\* Inbound.__exit__
Inbound_exit ==
    /\ xfr_call.op \in {"init", "process_message"}
    /\ xfr_txn_calls' = IF inbound.txn # "None"
                           THEN Append(xfr_txn_calls, [op |-> "rollback", msg |-> xfr_seen.msgs])
                           ELSE xfr_txn_calls
    /\ xfr_call' = XfrCall("exit", NOERROR, <<>>, FALSE, "")
    /\ UNCHANGED <<inbound, xfr_sent, xfr_seen>>
    /\ UNCHANGED <<early_vars, xfr_others>>

\* Inbound(zone): an AXFR over the repository's TransactionManager
InboundInit ==
    /\ inbound = Inbound("None", "AXFR")
    /\ xfr_sent = BaseSerial
    /\ xfr_txn_calls = <<>>
    /\ xfr_seen = Seen(0, 0, FALSE, 0, 0)
    /\ xfr_call = XfrCall("init", NOERROR, <<>>, FALSE, "")

NextInbound ==
    \/ \E txn_manager \in Managers, rdtype \in {"AXFR", "IXFR"}, sent \in SentSerials :
           Inbound_init(txn_manager, rdtype, sent)
    \/ \E rcode \in Rcodes, answer \in Answers : Inbound_process_message(rcode, answer)
    \/ Inbound_exit

(***************************************************************************)
(* dns.rcode: to_flags and from_flags.  x & mask and the shifts are        *)
(* written with \div, % and *; the two parts of an rcode share no bit, so  *)
(* their | is their sum.                                                   *)
(***************************************************************************)
MaxRcode == 4095

\* The values of the Rcode enumeration (BADVERS and BADSIG are both 16).
RcodeValues == (0..11) \cup (16..23)

\* Rcode(value): ValueError when value is no member of the enumeration
Rcode(value) ==
    IF value \in RcodeValues THEN [value |-> value, err |-> ""]
    ELSE [value |-> value, err |-> "ValueError"]

\* dns.rcode.to_flags(value)
rcode_to_flags(value) ==
    IF value < 0 \/ value > MaxRcode
        THEN [flags |-> 0, ednsflags |-> 0, err |-> "ValueError"]
        ELSE [flags |-> value % 16,                             \* value & 0x000f
              ednsflags |-> (((value \div 16) % 256) * 16) * 16,  \* (value & 0xff0) << 4
              err |-> ""]

\* dns.rcode.from_flags(flags, ednsflags)
rcode_from_flags(flags, ednsflags) ==
    LET low == flags % 16                                     \* flags & 0x000f
        high == (((ednsflags \div 65536) % 256) * 65536) \div 16  \* (ednsflags & 0xff0000) >> 4
        rcode == low + high
    IN  IF rcode < 0 \/ rcode > MaxRcode
            THEN [value |-> rcode, err |-> "ValueError"]
            ELSE Rcode(rcode)

RcodeCall(op, flags, ednsflags, value, err) ==
    [op |-> op, flags |-> flags, ednsflags |-> ednsflags, value |-> value, err |-> err]

\* flags, ednsflags = dns.rcode.to_flags(value)
Rcode_to_flags ==
    /\ rcode_call.op = "init"
    /\ rcode_call' = RcodeCall("to_flags", rcode_to_flags(rcode_value).flags,
                               rcode_to_flags(rcode_value).ednsflags, rcode_value,
                               rcode_to_flags(rcode_value).err)
    /\ UNCHANGED rcode_value
    /\ UNCHANGED <<early_vars, rcode_others>>

\* dns.rcode.from_flags(flags, ednsflags) on the pair to_flags returned
Rcode_from_flags ==
    /\ rcode_call.op = "to_flags"
    /\ rcode_call.err = ""
    /\ rcode_call' = RcodeCall("from_flags", rcode_call.flags, rcode_call.ednsflags,
                               rcode_from_flags(rcode_call.flags, rcode_call.ednsflags).value,
                               rcode_from_flags(rcode_call.flags, rcode_call.ednsflags).err)
    /\ UNCHANGED rcode_value
    /\ UNCHANGED <<early_vars, rcode_others>>

RcodeInit(value) ==
    /\ rcode_value = value
    /\ rcode_call = RcodeCall("init", 0, 0, value, "")

NextRcode ==
    \/ Rcode_to_flags
    \/ Rcode_from_flags

(***************************************************************************)
(* Specifications: one per part, every part constructed.                   *)
(***************************************************************************)
MoreInit ==
    /\ SetInit
    /\ InboundInit
    /\ RcodeInit(0)

LaterInit ==
    /\ MessageInit
    /\ TokenizerInit(<<>>)
    /\ CacheInit
    /\ LRUCacheInit(DefaultLruMaxSize)
    /\ VersionedZoneInit
    /\ TransactionInit
    /\ MoreInit

Init ==
    /\ NodeInit
    /\ ZoneInit
    /\ RdsInit
    /\ RendererInit(DefaultMaxSize)
    /\ LaterInit

InitRenderer ==
    /\ NodeInit
    /\ ZoneInit
    /\ RdsInit
    /\ \E size \in MinMaxSize..MaxMaxSize : RendererInit(size)
    /\ LaterInit

SpecNode == Init /\ [][NextNode]_vars

SpecZone == Init /\ [][NextZone]_vars

SpecRdataset == Init /\ [][NextRdataset]_vars

SpecRenderer == InitRenderer /\ [][NextRenderer]_vars

SpecMessage == Init /\ [][NextMessage]_vars

InitTokenizer ==
    /\ NodeInit
    /\ ZoneInit
    /\ RdsInit
    /\ RendererInit(DefaultMaxSize)
    /\ MessageInit
    /\ \E f \in Inputs : TokenizerInit(f)
    /\ CacheInit
    /\ LRUCacheInit(DefaultLruMaxSize)
    /\ VersionedZoneInit
    /\ TransactionInit
    /\ MoreInit

SpecTokenizer == InitTokenizer /\ [][NextTokenizer]_vars

SpecCache == Init /\ [][NextCache]_vars

InitLRUCache ==
    /\ NodeInit
    /\ ZoneInit
    /\ RdsInit
    /\ RendererInit(DefaultMaxSize)
    /\ MessageInit
    /\ TokenizerInit(<<>>)
    /\ CacheInit
    /\ \E size \in 1..MaxLruSize : LRUCacheInit(size)
    /\ VersionedZoneInit
    /\ TransactionInit
    /\ MoreInit

SpecLRUCache == InitLRUCache /\ [][NextLRUCache]_vars

SpecVersionedZone == Init /\ [][NextVersionedZone]_vars

SpecTransaction == Init /\ [][NextTransaction]_vars

SpecSet == Init /\ [][NextSet]_vars

SpecInbound == Init /\ [][NextInbound]_vars

InitRcode ==
    /\ NodeInit
    /\ ZoneInit
    /\ RdsInit
    /\ RendererInit(DefaultMaxSize)
    /\ MessageInit
    /\ TokenizerInit(<<>>)
    /\ CacheInit
    /\ LRUCacheInit(DefaultLruMaxSize)
    /\ VersionedZoneInit
    /\ TransactionInit
    /\ SetInit
    /\ InboundInit
    /\ \E value \in 0..MaxRcode : RcodeInit(value)

SpecRcode == InitRcode /\ [][NextRcode]_vars

(***************************************************************************)
(* The vocabulary of the properties: the kinds of rdataset the             *)
(* documentation of Node speaks of.                                        *)
(***************************************************************************)
IsCnameRds(r) ==
    r.rdtype = "CNAME" \/ (r.rdtype = "RRSIG" /\ r.covers = "CNAME")

IsNeutralRds(r) ==
    \/ r.rdtype \in {"NSEC", "NSEC3", "KEY"}
    \/ (r.rdtype = "RRSIG" /\ r.covers \in {"NSEC", "NSEC3", "KEY"})

IsOtherDataRds(r) == ~IsCnameRds(r) /\ ~IsNeutralRds(r)

Range(s) == {s[i] : i \in 1..Len(s)}

Min(S) == CHOOSE x \in S : \A y \in S : x <= y

Max(S) == CHOOSE x \in S : \A y \in S : x >= y

RecordAdds == {"add_question", "add_rrset", "add_rdataset"}

AddCalls == RecordAdds \cup {"add_opt", "add_tsig"}

(***************************************************************************)
(* Properties of dns.node and dns.zone.                                    *)
(***************************************************************************)

\* C1: after any sequence of find_rdataset(create=True), get_rdataset(create=True),
\* replace_rdataset and delete_rdataset calls on a Node that started empty, the node
\* never holds a CNAME or RRSIG(CNAME) rdataset together with an other-data rdataset.
NodeNeverCnameAndOtherData ==
    ~(\E i, j \in 1..Len(rdatasets) :
          IsCnameRds(rdatasets[i]) /\ IsOtherDataRds(rdatasets[j]))

\* C2: from an empty Zone, find_rdataset(foo, A, create=True) followed by
\* find_rdataset(foo, CNAME, create=True) leaves only the CNAME rdataset at foo.
ZoneCnameReplacesA ==
    zone_calls = <<ZoneCall("find_rdataset", "foo", "A", TRUE),
                   ZoneCall("find_rdataset", "foo", "CNAME", TRUE)>>
        => nodes["foo"] = <<Rds("IN", "CNAME", "NONE")>>

\* C3: appending a CNAME rdataset to a node removes every rdataset that is not
\* NSEC, NSEC3, KEY or an RRSIG covering one of them, keeps each of those, and
\* leaves the new CNAME rdataset in the node (as its last rdataset).
AppendCnamePurgesOtherData ==
    [][(node_call'.appended /\ node_call'.rds.rdtype = "CNAME") =>
          /\ \A r \in Range(rdatasets) : IsNeutralRds(r) => r \in Range(rdatasets')
          /\ \A r \in Range(rdatasets') : r = node_call'.rds \/ IsNeutralRds(r)
          /\ Len(rdatasets') > 0
          /\ rdatasets'[Len(rdatasets')] = node_call'.rds]_vars

\* C3 happens: a CNAME rdataset has been appended to a node that held a neutral
\* rdataset, which is still there, and another one, which is gone.
AppendCnamePurgedSome ==
    /\ node_call.appended
    /\ node_call.rds.rdtype = "CNAME"
    /\ Len(rdatasets) > 1
    /\ Len(rdatasets) < node_call.before + 1

\* C4: appending a neutral rdataset (NSEC, NSEC3, KEY or an RRSIG covering one of
\* them) removes no rdataset already in the node.
AppendNeutralRemovesNothing ==
    [][(node_call'.appended /\ IsNeutralRds(node_call'.rds)) =>
          \A r \in Range(rdatasets) : r \in Range(rdatasets')]_vars

(***************************************************************************)
(* Properties of dns.rdataset.                                             *)
(***************************************************************************)

\* C5: after any sequence of add(rdata, ttl) calls the TTL of the rdataset is the
\* minimum of the TTLs supplied since the set was last empty; the first add to an
\* empty set sets the TTL to the supplied value.
RdatasetTtlIsMinimum ==
    rds_calls # <<>> =>
        LET last_empty == Max({i \in 1..Len(rds_calls) : rds_calls[i].was_empty})
        IN  ttl = Min({rds_calls[i].ttl : i \in last_empty..Len(rds_calls)})

(***************************************************************************)
(* Properties of dns.renderer.                                             *)
(***************************************************************************)

\* C6: the current section never decreases in the order QUESTION, ANSWER,
\* AUTHORITY, ADDITIONAL; a call that names a section lower than the current one
\* raises FormError and adds nothing to the message.
SectionNeverDecreases ==
    [][/\ section' >= section
       /\ r_call'.section < section =>
              /\ r_call'.err = "FormError"
              /\ output' = output
              /\ pos' = pos
              /\ counts' = counts
              /\ compress' = compress]_vars

\* C6 happens: a call naming a section lower than the current one was rejected.
LowerSectionRejected ==
    /\ r_call.op \in RecordAdds
    /\ r_call.err = "FormError"
    /\ r_call.section < section
    /\ Len(output) > HeaderLen

TooBigOnlyWhenExceeding ==
    (r_call.op \in AddCalls /\ r_call.err # "FormError") =>
        (r_call.err = "TooBig" <=> r_call.wlen > max_size)

\* C9: after reserve(n) and until release_reserved(), no add call succeeds that makes
\* the message longer than max_size - n bytes.
ReservedBytesStayFree ==
    (r_call.op \in AddCalls /\ r_call.err = "ok") =>
        Len(output) <= max_size - reserved

RECURSIVE records_in(_, _)
records_in(rs, s) ==
    IF rs = <<>> THEN 0
    ELSE (IF Head(rs).sec = s THEN Head(rs).n ELSE 0) + records_in(Tail(rs), s)

\* C23: after any sequence of successful and failed add calls, counts[s] is the
\* number of records of section s that are in the output buffer; a TSIG or OPT
\* record that was rolled back is not counted.
CountsMatchRecordsInBuffer ==
    \A s \in Sections : counts[s] = records_in(recs, s)
\* C24: Node.classify returns CNAME for a node that holds a CNAME or an
\* RRSIG(CNAME) rdataset, NEUTRAL for a node that is empty or holds only NSEC,
\* NSEC3, KEY and RRSIGs covering them, and REGULAR otherwise.
ClassifyFollowsNodeContents ==
    node_call.op = "classify" =>
        node_call.kind =
            IF \E r \in Range(rdatasets) :
                   r.rdtype = "CNAME" \/ (r.rdtype = "RRSIG" /\ r.covers = "CNAME")
                THEN "CNAME"
            ELSE IF \A r \in Range(rdatasets) : IsNeutralRds(r)
                THEN "NEUTRAL"
            ELSE "REGULAR"
(***************************************************************************)
(* Properties of dns.message.                                              *)
(***************************************************************************)

\* C11: m.is_response(r) is true if and only if r has the same id and the same
\* opcode as m, r has the QR flag set, and r's question section matches m's.
IsResponseIffIdOpcodeQrQuestion ==
    msg_call.called =>
        (msg_call.result <=>
            /\ msg_m.id = msg_r.id
            /\ from_flags(msg_m.flags) = from_flags(msg_r.flags)
            /\ flag_QR(msg_r.flags) = 1
            /\ Range(msg_m.question) = Range(msg_r.question))

(***************************************************************************)
(* Properties of dns.tokenizer.                                            *)
(***************************************************************************)

\* C12: get() called again and again on a finite input ends with an EOF token: a
\* get() call made once all the input has been consumed (nothing left in the file,
\* nothing in the unget buffers) returns an EOF token.
GetReturnsEofOnceInputConsumed ==
    [][(/\ tok_call'.op = "get"
        /\ ungotten_token = NoToken
        /\ ungotten_char = "None"
        /\ file_pos > Len(tok_input))
          => (tok_call'.err = "" /\ tok_call'.token.ttype = EOF)]_vars

\* C13: the line number where() reports is always 1 plus the number of newline
\* characters consumed so far; a character pushed back with _unget_char does not
\* count as consumed.
WhereIsOnePlusNewlinesConsumed ==
    where = 1 + nl_consumed

\* what the next read operations will deliver: the pushed-back character, if
\* any, and then the rest of the file
Pending ==
    (IF ungotten_char = "None" THEN <<>> ELSE <<ungotten_char>>)
        \o SubSeq(tok_input, file_pos, Len(tok_input))

IsBlank(c) == c \in {" ", "\t", "\r"}

LeadingBlanks(s) ==
    CHOOSE n \in 0..Len(s) :
        /\ \A i \in 1..n : IsBlank(s[i])
        /\ n = Len(s) \/ ~IsBlank(s[n + 1])

NewlineIsNext ==
    LeadingBlanks(Pending) < Len(Pending)
        /\ Pending[LeadingBlanks(Pending) + 1] = "\n"

IsEol(call) == call.err = "" /\ call.token.ttype = EOL

UngetBuffersHoldOneItem ==
    [][/\ tok_call'.op = "unget" =>
            IF ungotten_token = NoToken
            THEN tok_call'.err = "" /\ ungotten_token' = tok_call'.token
            ELSE tok_call'.err = "UngetBufferFull" /\ ungotten_token' = ungotten_token
       /\ (tok_call'.op = "get" /\ ungotten_token # NoToken) =>
            /\ tok_call'.err = ""
            /\ tok_call'.token = ungotten_token
            /\ ungotten_token' = NoToken
       /\ tok_call'.op = "_unget_char" =>
            IF ungotten_char = "None"
            THEN tok_call'.err = "" /\ ungotten_char' = tok_call'.c
            ELSE tok_call'.err = "UngetBufferFull" /\ ungotten_char' = ungotten_char]_vars

\* a second unget() of another token was refused and the first token is still buffered
SecondUngetRefused ==
    /\ tok_call.op = "unget"
    /\ tok_call.err = "UngetBufferFull"
    /\ ungotten_token # NoToken
    /\ ungotten_token # tok_call.token

(***************************************************************************)
(* Properties of the resolver caches.                                      *)
(***************************************************************************)

\* C16: every read or write of the shared state of the cache (data, next_cleaning,
\* statistics) is made by a thread that holds the lock of the cache, in get, put,
\* flush and the periodic cleaning.
CacheAccessHoldsLock ==
    cache_access.locked

\* the key of the least recently used entry of the LRUCache: of the nodes that
\* self.data holds, the one nearest to the end of the list
LeastRecentlyUsed(list) ==
    list[CHOOSE i \in 1..Len(list) :
            list[i].live /\ \A j \in (i + 1)..Len(list) : ~list[j].live].key

\* C17: LRUCache.put of a key that is not in the cache, made when the cache holds
\* max_size entries, removes exactly one entry, the least recently used one, and
\* stores the new key.
PutAtMaxSizeEvictsLeastRecentlyUsed ==
    [][(/\ lru_call'.op = "put"
        /\ lru_call'.key \notin data_keys(lru_list)
        /\ Cardinality(data_keys(lru_list)) = lru_max_size)
          => /\ lru_call'.err = ""
             /\ data_keys(lru_list') =
                    (data_keys(lru_list) \ {LeastRecentlyUsed(lru_list)})
                        \cup {lru_call'.key}]_vars

\* C29: after any sequence of LRUCache put, get and flush calls the keys of the
\* nodes linked in the LRU list are exactly the keys of the data dictionary, so
\* _remove_last finds the key of the last node in data (no call ends in KeyError).
LinkedKeysAreDataKeys ==
    /\ {lru_list[i].key : i \in 1..Len(lru_list)} = data_keys(lru_list)
    /\ lru_call.err # "KeyError"

(***************************************************************************)
(* Properties of versioned zones and transactions.                         *)
(***************************************************************************)

\* C18: reader() on a versioned zone opens a read-only transaction on the version
\* that is current at the time of the call, and the transaction keeps that version
\* whatever is committed afterwards.
ReaderKeepsVersionOfOpening ==
    \A i \in 1..Len(vz_calls) :
        vz_calls[i].op = "reader" =>
            /\ vz_calls[i].result.txn
            /\ vz_calls[i].result.read_only
            /\ vz_calls[i].result.version = vz_calls[i].current

\* C19: at most one writer transaction is open on a versioned zone at a time: of
\* two writer() calls that returned, the second returned only after the transaction
\* of the first was committed or rolled back.  (reader() calls are never held back.)
SecondWriterWaitsForFirst ==
    \A i, j \in 1..Len(vz_calls) :
        (i < j /\ vz_calls[i].op = "writer" /\ vz_calls[j].op = "writer") =>
            \E k \in (i + 1)..(j - 1) :
                /\ vz_calls[k].op \in {"commit", "rollback"}
                /\ vz_calls[k].thread = vz_calls[i].thread
                /\ vz_calls[k].err = ""

\* C20: Transaction.delete_exact raises DeleteNotExact when a record it is asked
\* to delete is absent (here: no rdataset of the type at the name).
DeleteExactRaisesWhenAbsent ==
    (/\ txn_call.op = "delete_exact"
     /\ ~(/\ txn_call.name \in DOMAIN nodes
          /\ \E i \in 1..Len(nodes[txn_call.name]) :
                 zone_match(nodes[txn_call.name][i], txn_call.rdtype, "NONE")))
        => txn_call.err = "DeleteNotExact"

\* C21: once a transaction has been committed or rolled back, the next use of it
\* (add, delete_exact, commit, rollback) raises AlreadyEnded.  (A new transaction,
\* op "init", is not a use of the ended one; __exit__ tests _ended itself.)
UseAfterEndRaisesAlreadyEnded ==
    [][(/\ txn_call.op \in {"commit", "rollback"}
        /\ txn_call.err = ""
        /\ txn_call' # txn_call
        /\ txn_call'.op \notin {"init", "exit"})
           => txn_call'.err = "AlreadyEnded"]_vars

\* C22: resolve_chaining follows at most MAX_CHAIN CNAME hops: a chain of at most
\* 16 CNAMEs that ends at an answer is resolved (a ChainingResult is returned), and
\* a chain of 17 or more, or one that loops, raises ChainTooLong.
ResolveChainingBoundedAtMaxChain ==
    chain_call.called =>
        IF chain_call.len > MAX_CHAIN \/ chain_call.loop
        THEN chain_call.err = "ChainTooLong"
        ELSE chain_call.result = "ChainingResult" /\ chain_call.err = ""

(***************************************************************************)
(* Properties of dns.set, dns.xfr and dns.rcode.                           *)
(***************************************************************************)
\* C25: a.symmetric_difference(b) and a.symmetric_difference_update(b) yield
\* exactly the items that are in a or in b but not in both: (a - b) | (b - a).
SymmetricDifferenceIsInOneNotBoth ==
    set_call.op \in {"symmetric_difference", "symmetric_difference_update"} =>
        set_call.result = (set_call.self \ set_call.other) \cup (set_call.other \ set_call.self)

\* C26: an inbound IXFR raises SerialWentBackwards if and only if the serial of the
\* first SOA received is less than the base serial given to Inbound, in RFC 1982
\* order.  (The step is a process_message whose answer section begins with the
\* first SOA of the transfer.)
SerialWentBackwardsIffSerialLess ==
    [][(/\ xfr_call'.op = "process_message"
        /\ xfr_seen'.msgs = xfr_seen.msgs + 1
        /\ inbound.rdtype = "IXFR"
        /\ ~inbound.soa_rdataset
        /\ xfr_call'.rcode = NOERROR
        /\ xfr_call'.answer # <<>>
        /\ Head(xfr_call'.answer) = "SOA")
           => (xfr_call'.err = "SerialWentBackwards"
                   <=> serial_lt(xfr_sent, inbound.serial))]_vars

\* C27: in an inbound AXFR that opens with an SOA, process_message returns True for
\* the message that brings the first SOA after the opening one, whether or not other
\* rrsets came in between, and False for every earlier message.
AxfrCompletesAtSecondSoa ==
    (/\ xfr_call.op = "process_message"
     /\ xfr_call.err = ""
     /\ inbound.rdtype = "AXFR"
     /\ xfr_seen.opened)
        => (xfr_call.result <=> xfr_seen.soas >= 2)

\* C28: over the life of an Inbound the write transaction is committed at most once,
\* at the message for which process_message first returns True, and rollback is
\* never called after the commit, not even by __exit__.
CommitOnceAndNoRollbackAfterCommit ==
    /\ \A i, j \in 1..Len(xfr_txn_calls) :
           (xfr_txn_calls[i].op = "commit" /\ i < j) =>
               xfr_txn_calls[j].op \notin {"commit", "rollback"}
    /\ \A i \in 1..Len(xfr_txn_calls) :
           xfr_txn_calls[i].op = "commit" => xfr_txn_calls[i].msg = xfr_seen.first_true

\* C30: for every rcode value v in 0..4095, from_flags applied to the pair that
\* to_flags(v) returned yields v; the upper 8 bits of v travel in the top 8 bits
\* of the 32-bit EDNS flags word.
RcodeRoundTrip ==
    rcode_call.op = "from_flags" =>
        /\ rcode_call.err = ""
        /\ rcode_call.value = rcode_value

====
